---- MODULE Spec2Model ----
(***************************************************************************)
(* Manga panel segmentation (netlify/src/lib/panel_segmentation.py).       *)
(*                                                                         *)
(* The image-processing collaborators (decoder, grayscale conversion,      *)
(* contour extraction, Hough line detector, JPEG encoder) are inputs: each *)
(* stage draws what its collaborator returns from a bounded set.  The      *)
(* geometric logic between them is translated statement by statement.      *)
(*                                                                         *)
(* Conventions.  An image is [width, height, gray] where gray maps the     *)
(* pixels <<row, col>> that are not 0 to their gray value (every other     *)
(* pixel is 0).  A box is <<x, y, w, h>>.  A line is <<<<x0, y0>>,         *)
(* <<x1, y1>>>> as the Hough collaborator returns it.  Python lists are    *)
(* sequences.  Float comparisons against products of integers are stated   *)
(* over the integers (0.3 * a < o  is  3 * a < 10 * o).                    *)
(***************************************************************************)
EXTENDS Integers, Sequences, FiniteSets, TLC

VARIABLES
    pc,              \* position of the invocation in segment_manga_panels
    im,              \* the decoded original image
    cropped_im,      \* working image returned by remove_black_borders
    crop_info,       \* <<crop_x, crop_y, crop_w, crop_h>>
    panel_boxes,     \* detect_panels_contour_based: accepted boxes so far
    combo,           \* detect_panels_contour_based: next secondary combination
    contour_panels,  \* what detect_panels_contour_based returned
    lines,           \* what probabilistic_hough_line returned
    segment_lines,   \* angle-filtered, then merged segments
    h_pos,           \* horizontal_c_pos
    v_pos,           \* vertical_c_pos / vertical_c_lines as <<col, lower, upper>>
    panels,          \* the list of panels the invocation has built so far
    result,          \* the returned envelope (NoResult before the return)
    ran,             \* stages this invocation has executed ("except": the handler)
    drawn,           \* what the collaborators returned to this invocation, when
                     \* two invocations are compared
    earlier,         \* the invocation before this one, when two are compared
    cli,             \* the process around the invocation: main, its input, its exit
    scan             \* a part of the module followed step by step on its own:
                     \* what entered it and where its loops are

vars == <<pc, im, cropped_im, crop_info, panel_boxes, combo, contour_panels,
          lines, segment_lines, h_pos, v_pos, panels, result, ran, drawn, earlier, cli, scan>>

(***************************************************************************)
(* Bounds of the model                                                     *)
(***************************************************************************)
MaxLit == 2        \* non-zero pixels of an input image
MaxDim == 13       \* largest side of an image given to the cropper alone
MaxContours == 2   \* contours the collaborator returns for one mask
MaxLines == 2      \* segments the Hough collaborator returns

(***************************************************************************)
(* Small helpers                                                           *)
(***************************************************************************)
Min(a, b) == IF a <= b THEN a ELSE b
Max(a, b) == IF a >= b THEN a ELSE b
Abs(a) == IF a < 0 THEN -a ELSE a
SetMin(S) == CHOOSE m \in S : \A n \in S : m <= n
SetMax(S) == CHOOSE m \in S : \A n \in S : m >= n

NoImage == [width |-> 0, height |-> 0, gray |-> <<>>]
NoCrop == <<0, 0, 0, 0>>
NoResult ==
    [returned |-> FALSE, has_error |-> FALSE, error |-> "",
     panels |-> <<>>, totalPanels |-> 0,
     originalImage |-> [width |-> 0, height |-> 0], readingOrder |-> <<>>]

\* no merge step has been taken
NoStep ==
    [merged |-> FALSE, present |-> FALSE, before |-> 0, after |-> 0]

\* the merge loops are not followed pair by pair
NoScan ==
    [input |-> <<>>, orientation |-> 1, outer |-> <<>>, inner |-> <<>>,
     horizontal |-> <<>>, last |-> NoStep]

\* segment_manga_panels called as a function: no process around it
NoCli ==
    [variant |-> "none", args |-> <<>>, stdin |-> "", image_base64 |-> "",
     printed |-> "", status |-> -1]

\* no invocation came before: mode "single" for one invocation on its own,
\* "first" for the first of two
NoEarlier(mode) ==
    [mode |-> mode, image |-> NoImage, drawn |-> <<>>, lines |-> <<>>, result |-> NoResult]

\* the collaborators' answers are recorded when two invocations are compared
Answer(call, contours, built, raised) ==
    [call |-> call, contours |-> contours, built |-> built, raised |-> raised]

Drawing(answer) ==
    drawn' = IF earlier.mode = "single" THEN drawn ELSE Append(drawn, answer)

(***************************************************************************)
(* numpy: image[r0:r1, c0:c1] for non-negative bounds.  Bounds past the    *)
(* end are clamped to the end; an inverted range is empty.                 *)
(***************************************************************************)
Slice(image, r0, r1, c0, c1) ==
    LET rs == Min(r0, image.height)
        re == Min(r1, image.height)
        cs == Min(c0, image.width)
        ce == Min(c1, image.width)
        keep == {p \in DOMAIN image.gray :
                    /\ p[1] >= rs /\ p[1] < re
                    /\ p[2] >= cs /\ p[2] < ce}
        moved == {<<p[1] - rs, p[2] - cs>> : p \in keep}
    IN [width  |-> Max(0, ce - cs),
        height |-> Max(0, re - rs),
        gray   |-> [q \in moved |-> image.gray[<<q[1] + rs, q[2] + cs>>]]]

(***************************************************************************)
(* remove_black_borders                                                    *)
(***************************************************************************)
BlackThreshold == 15
padding == 5

\* np.where(gray > 15): the pixels absent from image.gray are 0, never above
non_black_mask(image) ==
    {p \in DOMAIN image.gray : image.gray[p] > BlackThreshold}

remove_black_borders_NoClamp(image) ==
    LET coords == non_black_mask(image)
    IN IF coords = {}
       THEN [cropped |-> image, crop_info |-> <<0, 0, image.width, image.height>>]
       ELSE LET y_min == SetMin({p[1] : p \in coords}) - padding
                x_min == SetMin({p[2] : p \in coords}) - padding
                y_max == SetMax({p[1] : p \in coords}) + padding
                x_max == SetMax({p[2] : p \in coords}) + padding
            IN [cropped   |-> Slice(image, Max(0, y_min), y_max, Max(0, x_min), x_max),
                crop_info |-> <<x_min, y_min, x_max - x_min, y_max - y_min>>]

remove_black_borders(image) ==
    LET coords == non_black_mask(image)
    IN IF coords = {}
       THEN [cropped |-> image, crop_info |-> <<0, 0, image.width, image.height>>]
       ELSE LET y_min == Max(0, SetMin({p[1] : p \in coords}) - padding)
                x_min == Max(0, SetMin({p[2] : p \in coords}) - padding)
                y_max == Min(image.height, SetMax({p[1] : p \in coords}) + padding)
                x_max == Min(image.width, SetMax({p[2] : p \in coords}) + padding)
            IN [cropped   |-> Slice(image, y_min, y_max, x_min, x_max),
                crop_info |-> <<x_min, y_min, x_max - x_min, y_max - y_min>>]

(***************************************************************************)
(* Input images.  Pixels are placed on the rows and columns where the      *)
(* padding and the clamps change behaviour; gray values sit on both sides  *)
(* of the black threshold.                                                 *)
(***************************************************************************)
EdgeCoords(n) == {0, 5, 6, n - 6, n - 1} \cap (0 .. n - 1)

RECURSIVE SubsetsUpTo(_, _)
SubsetsUpTo(S, k) ==
    IF k = 0 THEN {{}}
    ELSE LET smaller == SubsetsUpTo(S, k - 1)
         IN smaller \cup {T \cup {x} : T \in smaller, x \in S}

CropDims == {1, 7, MaxDim}

CropGrays == {15, 16}

(***************************************************************************)
(* The cropper alone: every bounded image goes through it.                 *)
(***************************************************************************)
Fresh ==
    /\ panel_boxes = <<>> /\ combo = 0 /\ contour_panels = <<>>
    /\ lines = <<>> /\ segment_lines = <<>> /\ h_pos = <<>> /\ v_pos = <<>>
    /\ panels = <<>> /\ result = NoResult /\ ran = {}

Idle ==
    /\ Fresh
    /\ drawn = <<>> /\ earlier = NoEarlier("single")
    /\ cli = NoCli
    /\ scan = NoScan

InitCrop ==
    /\ pc = "crop_in"
    /\ \E w \in CropDims, h \in CropDims :
          \E S \in SubsetsUpTo(EdgeCoords(h) \X EdgeCoords(w), MaxLit) :
             \E g \in [S -> CropGrays] :
                im = [width |-> w, height |-> h, gray |-> g]
    /\ cropped_im = NoImage
    /\ crop_info = NoCrop
    /\ Idle

CropApply ==
    /\ pc = "crop_in"
    /\ LET r == remove_black_borders(im)
       IN /\ cropped_im' = r.cropped
          /\ crop_info' = r.crop_info
    /\ pc' = "crop_out"
    /\ UNCHANGED <<im, panel_boxes, combo, contour_panels, lines, segment_lines,
                   h_pos, v_pos, panels, result, ran, drawn, earlier, cli, scan>>

NextCrop == CropApply

SpecCrop == InitCrop /\ [][NextCrop]_vars

(***************************************************************************)
(* Stable sort (Python's list.sort): keys[i] is the integer pair element   *)
(* i is sorted by; elements with equal keys keep their order.              *)
(***************************************************************************)
KeyLess(a, b) == a[1] < b[1] \/ (a[1] = b[1] /\ a[2] < b[2])

StableSort(s, keys) ==
    LET n == Len(s)
        Before(j, i) == KeyLess(keys[j], keys[i]) \/ (keys[j] = keys[i] /\ j < i)
        rank(i) == Cardinality({j \in 1 .. n : Before(j, i)}) + 1
    IN [q \in 1 .. n |-> s[CHOOSE i \in 1 .. n : rank(i) = q]]

(***************************************************************************)
(* detect_panels_contour_based.  A contour is [area, box]: what            *)
(* cv2.contourArea and cv2.boundingRect return for it.                     *)
(***************************************************************************)
MinAreaPct == 2
MaxAreaPct == 90
MinPanelSize == 100
AspectMinTenths == 2
AspectMax == 10
EdgeMargin == 20
LargeAreaPct == 5
DuplicatePct == 50
OverlapPct == 30
EnoughPanels == 3

BoxArea(b) == b[3] * b[4]

\* overlap_x * overlap_y of two boxes
overlap_area(a, b) ==
    LET overlap_x == Max(0, Min(a[1] + a[3], b[1] + b[3]) - Max(a[1], b[1]))
        overlap_y == Max(0, Min(a[2] + a[4], b[2] + b[4]) - Max(a[2], b[2]))
    IN overlap_x * overlap_y

\* min_area < area < max_area, w > 100 and h > 100, 0.2 < w / h < 10
passes_size_filters(c, W, H) ==
    /\ 100 * c.area > MinAreaPct * (H * W)
    /\ 100 * c.area < MaxAreaPct * (H * W)
    /\ c.box[3] > MinPanelSize /\ c.box[4] > MinPanelSize
    /\ 10 * c.box[3] > AspectMinTenths * c.box[4]
    /\ c.box[3] < AspectMax * c.box[4]

near_edge(b, W, H) ==
    \/ b[1] < EdgeMargin
    \/ b[2] < EdgeMargin
    \/ b[1] + b[3] > W - EdgeMargin
    \/ b[2] + b[4] > H - EdgeMargin

large_enough(c, W, H) == 100 * c.area > LargeAreaPct * (H * W)

primary_accepts(c, W, H) ==
    /\ passes_size_filters(c, W, H)
    /\ near_edge(c.box, W, H) \/ large_enough(c, W, H)

\* Method 1: the boxes of the accepted contours, in the contours' order
RECURSIVE primary_pass(_, _, _)
primary_pass(contours, W, H) ==
    IF contours = <<>> THEN <<>>
    ELSE LET c == Head(contours)
             rest == primary_pass(Tail(contours), W, H)
         IN IF primary_accepts(c, W, H) THEN <<c.box>> \o rest ELSE rest

\* the same test with half of the area counted as covered
is_duplicate_FromHalf(b, boxes) ==
    \E i \in 1 .. Len(boxes) :
        100 * overlap_area(b, boxes[i]) >= DuplicatePct * BoxArea(b)

\* overlap_area > current_area * 0.5 with some box accepted before
is_duplicate(b, boxes) ==
    \E i \in 1 .. Len(boxes) :
        100 * overlap_area(b, boxes[i]) > DuplicatePct * BoxArea(b)

\* Method 2, one (block_size, c_value): scan its contours in order
RECURSIVE secondary_scan(_, _, _, _)
secondary_scan(boxes, contours, W, H) ==
    IF contours = <<>> THEN boxes
    ELSE LET c == Head(contours)
             add == passes_size_filters(c, W, H) /\ ~is_duplicate(c.box, boxes)
         IN secondary_scan(IF add THEN Append(boxes, c.box) ELSE boxes,
                           Tail(contours), W, H)

\* the (block_size, c_value) pairs in the order the loops visit them
Combos == <<<<15, 5>>, <<15, 10>>, <<21, 5>>, <<21, 10>>>>

\* the same test at the 50% of the duplicate check
is_overlapping_Half(b, kept) ==
    \E i \in 1 .. Len(kept) :
        100 * overlap_area(b, kept[i]) > DuplicatePct * BoxArea(b)

\* overlap_area > current_area * 0.3 with some box kept before
is_overlapping(b, kept) ==
    \E i \in 1 .. Len(kept) :
        100 * overlap_area(b, kept[i]) > OverlapPct * BoxArea(b)

RECURSIVE greedy_keep(_, _)
greedy_keep(sorted, kept) ==
    IF sorted = <<>> THEN kept
    ELSE greedy_keep(Tail(sorted),
                     IF is_overlapping(Head(sorted), kept) THEN kept
                     ELSE Append(kept, Head(sorted)))

\* the boxes in the order they came
by_area_descending_Unsorted(boxes) == boxes

\* panel_boxes.sort(key=lambda box: box[2] * box[3], reverse=True)
by_area_descending(boxes) ==
    StableSort(boxes, [i \in 1 .. Len(boxes) |-> <<-BoxArea(boxes[i]), 0>>])

\* panel_boxes.sort(key = area, reverse = True), then the greedy keep
remove_overlapping(boxes) == greedy_keep(by_area_descending(boxes), <<>>)

(***************************************************************************)
(* Line-based builder: helpers of the module                               *)
(***************************************************************************)
\* the preset of netlify/src/lib (percentages stand for the float factors)
ImprovedPreset ==
    [angle_deviation |-> 5, distance |-> 999999999,
     width_border_pct |-> 5, height_border_pct |-> 5,
     hor_line_length_pct |-> 20, ver_line_length_pct |-> 15,
     parallel_merge_dst_pct |-> 15, parallel_merge_cap |-> 80]

\* int(factor * n) for a factor of pct / 100 and n >= 0
IntOfPct(pct, n) == (pct * n) \div 100

width_border(cfg, W) == IntOfPct(cfg.width_border_pct, W)
height_border(cfg, H) == IntOfPct(cfg.height_border_pct, H)
hor_line_length(cfg, W) == IntOfPct(cfg.hor_line_length_pct, W)
ver_line_length(cfg, H) == IntOfPct(cfg.ver_line_length_pct, H)
\* min(int(factor * np.mean([im_width, im_height])), cap)
parallel_merge_dst(cfg, W, H) ==
    Min((cfg.parallel_merge_dst_pct * (W + H)) \div 200, cfg.parallel_merge_cap)

(***************************************************************************)
(* protractor returns arctan((y1 - y0) / (x1 - x0)) in degrees, 90 when    *)
(* x1 = x0: a value in (-90, 90].  The callers only compare it; each       *)
(* comparison is stated on the slope (tan 5 = 0.0874886..., tan 85 =       *)
(* 11.4300523...; no slope of integers below 500 falls between the         *)
(* rational bounds used here and these values).                            *)
(***************************************************************************)
Dx(line) == line[2][1] - line[1][1]
Dy(line) == line[2][2] - line[1][2]
SlopeNonNegative(line) ==
    \/ Dx(line) > 0 /\ Dy(line) >= 0
    \/ Dx(line) < 0 /\ Dy(line) <= 0

\* abs(protractor(line) - 0) <= deviation, deviation 0 or 5
protractor_near_0(line, deviation) ==
    /\ Dx(line) # 0
    /\ IF deviation = 0 THEN Dy(line) = 0
       ELSE Abs(Dy(line)) * 1000000 <= 87488 * Abs(Dx(line))

\* abs(protractor(line) - 90) <= deviation, deviation 0 or 5
protractor_near_90(line, deviation) ==
    \/ Dx(line) = 0
    \/ /\ deviation # 0
       /\ SlopeNonNegative(line)
       /\ Abs(Dy(line)) * 100000 >= 1143006 * Abs(Dx(line))

\* abs(protractor(line) - 180) <= deviation: the angle never exceeds 90
protractor_near_180(line, deviation) == FALSE

\* protractor(line) < 45 and protractor(line) > 45
protractor_lt_45(line) ==
    /\ Dx(line) # 0
    /\ ~SlopeNonNegative(line) \/ Abs(Dy(line)) < Abs(Dx(line))

protractor_gt_45(line) ==
    \/ Dx(line) = 0
    \/ SlopeNonNegative(line) /\ Abs(Dy(line)) > Abs(Dx(line))

\* in_line: the first (orientation 1) or second (orientation 0) coordinates
\* of the two lines agree endpoint by endpoint
in_line(line1, line2, orientation) ==
    IF orientation = 1
    THEN line1[1][1] = line2[1][1] /\ line1[2][1] = line2[2][1]
    ELSE line1[1][2] = line2[1][2] /\ line1[2][2] = line2[2][2]

SortInts(seq) == StableSort(seq, [i \in 1 .. Len(seq) |-> <<seq[i], 0>>])

merge_line(line1, line2, orientation, distance) ==
    LET row_list == SortInts(<<line1[1][1], line1[2][1], line2[1][1], line2[2][1]>>)
        col_list == SortInts(<<line1[1][2], line1[2][2], line2[1][2], line2[2][2]>>)
        merged == <<<<row_list[1], col_list[1]>>, <<row_list[4], col_list[4]>>>>
    IN IF orientation = 1
       THEN IF col_list[3] - col_list[2] <= distance THEN merged ELSE line1
       ELSE IF row_list[3] - row_list[2] <= distance THEN merged ELSE line1

line_len(line) == Max(Abs(Dx(line)), Abs(Dy(line)))

\* sorted(set(...)) of a set of integers
RECURSIVE SortedSeq(_)
SortedSeq(S) ==
    IF S = {} THEN <<>>
    ELSE LET m == SetMin(S) IN <<m>> \o SortedSeq(S \ {m})

Range(seq) == {seq[i] : i \in 1 .. Len(seq)}

\* the sweep of new_parallel_merge over the sorted list
RECURSIVE parallel_sweep(_, _, _)
parallel_sweep(lst, curr_xvalue, merge_threshold) ==
    IF lst = <<>> THEN <<>>
    ELSE IF Abs(Head(lst) - curr_xvalue) <= merge_threshold
         THEN <<curr_xvalue>> \o parallel_sweep(Tail(lst), curr_xvalue, merge_threshold)
         ELSE <<Head(lst)>> \o parallel_sweep(Tail(lst), Head(lst), merge_threshold)

new_parallel_merge(lst, merge_threshold) ==
    SortedSeq(Range(parallel_sweep(SortedSeq(Range(lst)), 0, merge_threshold)))

\* list(dict.fromkeys(lst)): first occurrences, in order
RECURSIVE Dedup(_)
Dedup(seq) ==
    IF seq = <<>> THEN <<>>
    ELSE LET front == Dedup(SubSeq(seq, 1, Len(seq) - 1))
             last == seq[Len(seq)]
         IN IF last \in Range(front) THEN front ELSE Append(front, last)

\* verticalcuts: the columns of the lines <<col, lower, upper>> that span
\* the band; the empty list stands for the False it returns
RECURSIVE covering_columns(_, _, _)
covering_columns(lb, ub, vlist) ==
    IF vlist = <<>> THEN <<>>
    ELSE LET line == Head(vlist)
             rest == covering_columns(lb, ub, Tail(vlist))
         IN IF line[2] <= lb /\ line[3] >= ub THEN <<line[1]>> \o rest ELSE rest

\* the columns of all the lines, whatever they span
verticalcuts_AllLines(lb, ub, vlist) == Dedup([i \in 1 .. Len(vlist) |-> vlist[i][1]])

verticalcuts(lb, ub, vlist) == Dedup(covering_columns(lb, ub, vlist))

(***************************************************************************)
(* segment_manga_panels, line-based path: the steps between the Hough      *)
(* collaborator and the grid                                               *)
(***************************************************************************)
\* Filter lines by angle
RECURSIVE angle_filter(_, _)
angle_filter(ls, deviation) ==
    IF ls = <<>> THEN <<>>
    ELSE LET line == Head(ls)
             rest == angle_filter(Tail(ls), deviation)
         IN IF \/ protractor_near_90(line, deviation)
               \/ protractor_near_0(line, deviation)
               \/ protractor_near_180(line, deviation)
            THEN <<line>> \o rest ELSE rest

\* list.remove guarded by "in": drops the first occurrence, if any
RemoveFirst(seq, x) ==
    IF x \notin Range(seq) THEN seq
    ELSE LET k == SetMin({i \in 1 .. Len(seq) : seq[i] = x})
         IN SubSeq(seq, 1, k - 1) \o SubSeq(seq, k + 1, Len(seq))

\* the body of the two nested loops for one pair
merge_step(working, segment_line, segment_line2, orientation, distance) ==
    IF segment_line # segment_line2 /\ in_line(segment_line, segment_line2, orientation)
    THEN LET new_line == merge_line(segment_line, segment_line2, orientation, distance)
         IN IF new_line # segment_line
            THEN Append(RemoveFirst(RemoveFirst(working, segment_line), segment_line2),
                        new_line)
            ELSE working
    ELSE working

\* for segment_line2 in segment_lines[:] (the copy taken when the loop starts)
RECURSIVE merge_inner(_, _, _, _, _)
merge_inner(working, segment_line, snapshot, orientation, distance) ==
    IF snapshot = <<>> THEN working
    ELSE merge_inner(merge_step(working, segment_line, Head(snapshot), orientation, distance),
                     segment_line, Tail(snapshot), orientation, distance)

\* for segment_line in segment_lines[:]
RECURSIVE merge_outer(_, _, _, _)
merge_outer(working, snapshot, orientation, distance) ==
    IF snapshot = <<>> THEN working
    ELSE merge_outer(merge_inner(working, Head(snapshot), working, orientation, distance),
                     Tail(snapshot), orientation, distance)

merge_pass(segs, orientation, distance) == merge_outer(segs, segs, orientation, distance)

\* Merge inline segments: the horizontal pass, then the vertical pass
merge_inline_segments(segs, distance) ==
    merge_pass(merge_pass(segs, 1, distance), 0, distance)

\* Filter lines by length
RECURSIVE length_filter(_, _, _)
length_filter(segs, hor_len, ver_len) ==
    IF segs = <<>> THEN <<>>
    ELSE LET line == Head(segs)
             rest == length_filter(Tail(segs), hor_len, ver_len)
         IN IF \/ protractor_lt_45(line) /\ line_len(line) >= hor_len
               \/ protractor_gt_45(line) /\ line_len(line) >= ver_len
            THEN <<line>> \o rest ELSE rest

\* Extract horizontal cutting positions (p0r of the lines under 45 degrees)
RECURSIVE horizontal_positions(_, _, _)
horizontal_positions(cutting, h_border, H) ==
    IF cutting = <<>> THEN <<>>
    ELSE LET line == Head(cutting)
             rest == horizontal_positions(Tail(cutting), h_border, H)
             p0r == line[1][2]
         IN IF protractor_lt_45(line) /\ p0r > h_border /\ p0r < H - h_border
            THEN <<p0r>> \o rest ELSE rest

\* Extract vertical cutting positions <<p0c, lower_b, upper_b>> (other lines)
RECURSIVE vertical_positions(_, _, _)
vertical_positions(cutting, w_border, W) ==
    IF cutting = <<>> THEN <<>>
    ELSE LET line == Head(cutting)
             rest == vertical_positions(Tail(cutting), w_border, W)
             p0c == line[1][1]
         IN IF ~protractor_lt_45(line) /\ p0c > w_border /\ p0c < W - w_border
            THEN <<<<p0c, Min(line[1][2], line[2][2]), Max(line[1][2], line[2][2])>>>> \o rest
            ELSE rest

\* no sentinel at all
with_sentinels_None(hpos, H) == hpos

\* only the top sentinel
with_sentinels_NoBottom(hpos, H) == <<0>> \o hpos

\* horizontal_c_pos.insert(0, 0); .append(im_height - 1) twice
with_sentinels(hpos, H) == <<0>> \o hpos \o <<H - 1, H - 1>>

\* the spans as they were
clamp_spans_Kept(vpos, hpos) == vpos

\* Adjust vertical line bounds: the inner loop over itr for one candidate
RECURSIVE clamp_span(_, _, _)
clamp_span(v, hpos, itr) ==
    IF itr > Len(hpos) - 1 THEN v
    ELSE LET v1 == IF v[2] >= hpos[itr] /\ v[2] < hpos[itr + 1]
                   THEN <<v[1], hpos[itr], v[3]>> ELSE v
             v2 == IF v1[3] <= hpos[itr + 1] /\ v1[3] > hpos[itr]
                   THEN <<v1[1], v1[2], hpos[itr + 1]>> ELSE v1
         IN clamp_span(v2, hpos, itr + 1)

clamp_spans(vpos, hpos) == [i \in 1 .. Len(vpos) |-> clamp_span(vpos[i], hpos, 1)]

RECURSIVE SumSeq(_)
SumSeq(seq) == IF seq = <<>> THEN 0 ELSE Head(seq) + SumSeq(Tail(seq))

\* Merge parallel vertical lines: the sweep after the sort by column.
\* c_pos_range is compared through its mean: sum / len.
RECURSIVE vertical_sweep(_, _, _)
vertical_sweep(vpos, c_pos_range, dst) ==
    IF vpos = <<>> THEN <<>>
    ELSE LET v == Head(vpos)
             n == Len(c_pos_range)
             total == SumSeq(c_pos_range)
         IN IF Abs(v[1] * n - total) <= dst * n
            THEN <<<<total \div n, v[2], v[3]>>>>
                     \o vertical_sweep(Tail(vpos), c_pos_range, dst)
            ELSE <<v>> \o vertical_sweep(Tail(vpos), <<v[1]>>, dst)

merge_parallel_vertical(vpos, dst) ==
    LET sorted == StableSort(vpos, [i \in 1 .. Len(vpos) |-> <<vpos[i][1], 0>>])
    IN IF sorted = <<>> THEN <<>>
       ELSE vertical_sweep(sorted, <<sorted[1][1]>>, dst)

\* the cells of one band, in the order the loop over j visits them, as
\* working-image corners <<x1, y1, x2, y2>>
band_cells(lb, ub, vlines, W) ==
    LET cuts == verticalcuts(lb, ub, vlines)
    IN IF cuts # <<>>
       THEN LET cutting_points == SortedSeq(Range(<<0>> \o cuts \o <<W - 1>>))
            IN [j \in 1 .. Len(cutting_points) - 1 |->
                   <<cutting_points[j], lb, cutting_points[j + 1], ub>>]
       ELSE <<<<0, lb, W - 1, ub>>>>

(***************************************************************************)
(* segment_manga_panels: building panels                                   *)
(***************************************************************************)
\* Adjust coordinates back to original image space
to_original_Unshifted(v, offset) == v

to_original_Twice(v, offset) == v + offset + offset

to_original(v, offset) == v + offset

\* im[r0:r1, c0:c1] as the encoder receives it: the pixels and, for the
\* record, the column and row of the original image they start at
image_data(image, r0, r1, c0, c1) ==
    [origin |-> <<Min(c0, image.width), Min(r0, image.height)>>,
     pixels |-> Slice(image, r0, r1, c0, c1)]

BoundingBox(x, y, w, h) == [x |-> x, y |-> y, width |-> w, height |-> h]

\* the panel of contour candidate i (0-based, as enumerate counts)
contour_panel(i, box, image, crop) ==
    LET orig_x == to_original(box[1], crop[1])
        orig_y == to_original(box[2], crop[2])
    IN [id |-> <<"panel", i>>,
        boundingBox |-> BoundingBox(orig_x, orig_y, box[3], box[4]),
        imageData |-> image_data(image, orig_y, orig_y + box[4], orig_x, orig_x + box[3]),
        readingOrderIndex |-> i,
        from |-> [strategy |-> "contour", work |-> box]]

\* panels.sort(key = (y, -x)), then ids and indices by position
renumber(ps) ==
    [i \in 1 .. Len(ps) |-> [ps[i] EXCEPT !.id = <<"panel", i - 1>>,
                                          !.readingOrderIndex = i - 1]]

\* the sort with the tie-break the wrong way round: ascending x
sort_contour_panels_LeftFirst(ps) ==
    renumber(StableSort(ps, [i \in 1 .. Len(ps) |->
                                <<ps[i].boundingBox.y, ps[i].boundingBox.x>>]))

sort_contour_panels(ps) ==
    renumber(StableSort(ps, [i \in 1 .. Len(ps) |->
                                <<ps[i].boundingBox.y, -ps[i].boundingBox.x>>]))

\* reading_order.append(i + 1) for each position i
reading_order_ZeroBased(n) == [i \in 1 .. n |-> i - 1]

\* a numbering that goes on from the invocation before
reading_order_Continued(n) == [i \in 1 .. n |-> i + earlier.result.totalPanels]

reading_order(n) == [i \in 1 .. n |-> i]

\* the candidate of one grid cell <<x1, y1, x2, y2>>; centre2 is twice
\* (center_x, center_y)
cell_candidate(cell, image, crop) ==
    LET orig_x1 == to_original(cell[1], crop[1])
        orig_y1 == to_original(cell[2], crop[2])
        orig_x2 == to_original(cell[3], crop[1])
        orig_y2 == to_original(cell[4], crop[2])
    IN [boundingBox |-> BoundingBox(orig_x1, orig_y1, orig_x2 - orig_x1, orig_y2 - orig_y1),
        imageData |-> image_data(image, orig_y1, orig_y2, orig_x1, orig_x2),
        centre2 |-> <<orig_x1 + orig_x2, orig_y1 + orig_y2>>,
        from |-> [strategy |-> "line",
                  work |-> <<cell[1], cell[2], cell[3] - cell[1], cell[4] - cell[2]>>]]

\* the encoder raises on a region without pixels
raises_on(candidate) ==
    candidate.imageData.pixels.width = 0 \/ candidate.imageData.pixels.height = 0

\* one band under "except (ValueError, IndexError): continue": the cells
\* appended before the first raise
RECURSIVE band_candidates(_, _, _)
band_candidates(cells, image, crop) ==
    IF cells = <<>> THEN <<>>
    ELSE LET c == cell_candidate(Head(cells), image, crop)
         IN IF raises_on(c) THEN <<>>
            ELSE <<c>> \o band_candidates(Tail(cells), image, crop)

band_raises(cells, image, crop) ==
    \E j \in 1 .. Len(cells) : raises_on(cell_candidate(cells[j], image, crop))

\* for i in range(len(horizontal_c_pos) - 1), from band i on.  caught tells
\* whether the handler of the band catches what the encoder raises; when it
\* does not, the loop ends at the first band that raises.
RECURSIVE grid_candidates(_, _, _, _, _, _, _)
grid_candidates(hpos, i, vlines, W, image, crop, caught) ==
    IF i > Len(hpos) - 1 THEN <<>>
    ELSE LET cells == band_cells(hpos[i], hpos[i + 1], vlines, W)
             here == band_candidates(cells, image, crop)
         IN IF band_raises(cells, image, crop) /\ ~caught THEN here
            ELSE here \o grid_candidates(hpos, i + 1, vlines, W, image, crop, caught)

grid_raises(hpos, vlines, W, image, crop) ==
    \E i \in 1 .. Len(hpos) - 1 :
        band_raises(band_cells(hpos[i], hpos[i + 1], vlines, W), image, crop)

\* panel_candidates.sort(key = (center_y, -center_x)), then the final panels
\* the final panels without the global sort
line_panels_Unsorted(candidates) ==
    [i \in 1 .. Len(candidates) |->
        [id |-> <<"panel", i - 1>>,
         boundingBox |-> candidates[i].boundingBox,
         imageData |-> candidates[i].imageData,
         readingOrderIndex |-> i - 1,
         from |-> candidates[i].from]]

line_panels(candidates) ==
    LET sorted == StableSort(candidates, [i \in 1 .. Len(candidates) |->
                       <<candidates[i].centre2[2], -candidates[i].centre2[1]>>])
    IN [i \in 1 .. Len(sorted) |->
           [id |-> <<"panel", i - 1>>,
            boundingBox |-> sorted[i].boundingBox,
            imageData |-> sorted[i].imageData,
            readingOrderIndex |-> i - 1,
            from |-> sorted[i].from]]

\* If no panels found, return the whole image as a single panel
whole_image_panel(image) ==
    [id |-> <<"panel", 0>>,
     boundingBox |-> BoundingBox(0, 0, image.width, image.height),
     imageData |-> image_data(image, 0, image.height, 0, image.width),
     readingOrderIndex |-> 0,
     from |-> [strategy |-> "whole", work |-> <<0, 0, image.width, image.height>>]]

\* if not panels: the whole image is the only panel
with_fallback_None(ps, image) == ps

with_fallback(ps, image) == IF ps = <<>> THEN <<whole_image_panel(image)>> ELSE ps

\* the envelopes
success_envelope(ps, order, image) ==
    [returned |-> TRUE, has_error |-> FALSE, error |-> "",
     panels |-> ps, totalPanels |-> Len(ps),
     originalImage |-> [width |-> image.width, height |-> image.height],
     readingOrder |-> order]

error_envelope_Partial(message) ==
    [returned |-> TRUE, has_error |-> TRUE, error |-> message,
     panels |-> panels', totalPanels |-> Len(panels'),
     originalImage |-> [width |-> 0, height |-> 0],
     readingOrder |-> reading_order(Len(panels'))]

error_envelope(message) ==
    [returned |-> TRUE, has_error |-> TRUE, error |-> message,
     panels |-> <<>>, totalPanels |-> 0,
     originalImage |-> [width |-> 0, height |-> 0],
     readingOrder |-> <<>>]

(***************************************************************************)
(* What the collaborators may return.  Contours and lines lie inside the   *)
(* working image; they are placed where the filters, the overlap           *)
(* thresholds, the merges and the borders decide differently.              *)
(***************************************************************************)
RECURSIVE SeqsUpTo(_, _)
SeqsUpTo(S, k) ==
    IF k = 0 THEN {<<>>}
    ELSE LET shorter == SeqsUpTo(S, k - 1)
         IN shorter \cup {Append(q, x) : q \in shorter, x \in S}

PipeDims == {<<1, 1>>, <<1, 300>>, <<400, 1>>, <<400, 300>>}

PipeLit(w, h) ==
    {L \in {{}, {<<0, 0>>}, {<<20, 30>>, <<h - 11, w - 11>>}} :
        \A p \in L : p[1] \in 0 .. h - 1 /\ p[2] \in 0 .. w - 1}

PipeImages ==
    UNION {{[width |-> d[1], height |-> d[2], gray |-> [p \in L |-> 200]] :
              L \in PipeLit(d[1], d[2])} : d \in PipeDims}

ContourCands(W, H) ==
    LET hw == W \div 2
        hh == H \div 2
        keep30 == hw - ((3 * hw) \div 10)
        all == {[area |-> hw * H, box |-> <<0, 0, hw, H>>],
                [area |-> (W - hw) * H, box |-> <<hw, 0, W - hw, H>>],
                [area |-> hw * hh, box |-> <<0, 0, hw, hh>>],
                [area |-> hw * (H - hh), box |-> <<0, hh, hw, H - hh>>],
                [area |-> (W - hw) * hh, box |-> <<hw, 0, W - hw, hh>>],
                [area |-> hw * H, box |-> <<keep30, 0, hw, H>>],
                [area |-> hw * H, box |-> <<keep30 - 1, 0, hw, H>>],
                [area |-> (3 * W * H) \div 100, box |-> <<W \div 4, H \div 4, 101, 101>>],
                [area |-> W * H, box |-> <<0, 0, W, H>>]}
    IN {c \in all : /\ c.box[1] >= 0 /\ c.box[2] >= 0
                    /\ c.box[3] >= 1 /\ c.box[4] >= 1
                    /\ c.box[1] + c.box[3] <= W
                    /\ c.box[2] + c.box[4] <= H}

LineCands(W, H) ==
    LET mx == W \div 2
        my == H \div 2
        all == {<<<<0, my>>, <<W - 1, my>>>>,
                <<<<W - 1, my>>, <<0, my>>>>,
                <<<<0, my + 10>>, <<W - 1, my + 10>>>>,
                <<<<5, (3 * H) \div 4>>, <<W - 1, (3 * H) \div 4>>>>,
                <<<<mx, 0>>, <<mx, H - 1>>>>,
                <<<<mx, 0>>, <<mx, my - 10>>>>,
                <<<<mx, my + 20>>, <<mx, H - 1>>>>,
                <<<<mx + 10, 0>>, <<mx + 10, H - 1>>>>,
                <<<<3, 0>>, <<3, H - 1>>>>,
                <<<<10, 10>>, <<40, 10>>>>,
                <<<<mx, H - 1>>, <<mx + 5, 0>>>>}
    IN {l \in all : /\ l[1] # l[2]
                    /\ \A k \in 1 .. 2 : l[k][1] \in 0 .. W - 1 /\ l[k][2] \in 0 .. H - 1}

\* what the JPEG encoder raises on an empty region differs between builds
EncoderErrors == {"ValueError", "SystemError"}

(***************************************************************************)
(* segment_manga_panels, one invocation                                    *)
(***************************************************************************)
Init ==
    /\ pc = "start"
    /\ im = NoImage
    /\ cropped_im = NoImage
    /\ crop_info = NoCrop
    /\ Idle

\* base64.b64decode, Image.open, np.array(image.convert('RGB'))
DecodeFrom(images) ==
    /\ pc = "start"
    /\ im' \in images
    /\ pc' = "decoded"
    /\ ran' = ran \cup {"decode"}
    /\ UNCHANGED <<cropped_im, crop_info, panel_boxes, combo, contour_panels, lines,
                   segment_lines, h_pos, v_pos, panels, result, drawn, earlier, cli, scan>>

Decode == DecodeFrom(PipeImages)

\* cropped_im, crop_info = remove_black_borders(im)
Crop ==
    /\ pc = "decoded"
    /\ LET r == remove_black_borders(im)
       IN /\ cropped_im' = r.cropped
          /\ crop_info' = r.crop_info
    /\ pc' = "cropped"
    /\ ran' = ran \cup {"crop"}
    /\ UNCHANGED <<im, panel_boxes, combo, contour_panels, lines, segment_lines,
                   h_pos, v_pos, panels, result, drawn, earlier, cli, scan>>

\* detect_panels_contour_based, Method 1; found: what findContours may return
DetectPrimaryFrom(found) ==
    /\ pc = "cropped"
    /\ \E contours \in found :
          /\ panel_boxes' = primary_pass(contours, cropped_im.width, cropped_im.height)
          /\ Drawing(Answer("findContours", contours, 0, ""))
    /\ IF Len(panel_boxes') < 2
       THEN pc' = "secondary" /\ combo' = 1
       ELSE pc' = "resolve" /\ combo' = 0
    /\ ran' = ran \cup {"contour"}
    /\ UNCHANGED <<im, cropped_im, crop_info, contour_panels, lines, segment_lines,
                   h_pos, v_pos, panels, result, earlier, cli, scan>>

DetectPrimary ==
    DetectPrimaryFrom(SeqsUpTo(ContourCands(cropped_im.width, cropped_im.height),
                               MaxContours))

\* detect_panels_contour_based, Method 2: one (block_size, c_value)
DetectSecondaryFrom(found) ==
    /\ pc = "secondary"
    /\ \E contours \in found :
          /\ panel_boxes' = secondary_scan(panel_boxes, contours,
                                           cropped_im.width, cropped_im.height)
          /\ Drawing(Answer("findContours", contours, 0, ""))
    /\ IF Len(panel_boxes') >= EnoughPanels \/ combo = Len(Combos)
       THEN pc' = "resolve" /\ combo' = 0
       ELSE pc' = "secondary" /\ combo' = combo + 1
    /\ UNCHANGED <<im, cropped_im, crop_info, contour_panels, lines, segment_lines,
                   h_pos, v_pos, panels, result, ran, earlier, cli, scan>>

DetectSecondary ==
    DetectSecondaryFrom(SeqsUpTo(ContourCands(cropped_im.width, cropped_im.height),
                                 MaxContours))

\* detect_panels_contour_based: Remove overlapping boxes, return
Resolve ==
    /\ pc = "resolve"
    /\ contour_panels' = remove_overlapping(panel_boxes)
    /\ panel_boxes' = <<>>
    /\ pc' = "detected"
    /\ UNCHANGED <<im, cropped_im, crop_info, combo, lines, segment_lines,
                   h_pos, v_pos, panels, result, ran, drawn, earlier, cli, scan>>

\* if len(contour_panels) > 1
use_contours_AtLeastOne == Len(contour_panels) > 0

use_contours == Len(contour_panels) > 1

\* the contour branch.  built: how many panels the loop appended before an
\* unexpected failure of the extraction (all of them: none failed)
ContourPath ==
    /\ pc = "detected"
    /\ use_contours
    /\ \E built \in 0 .. Len(contour_panels) :
          LET all == [i \in 1 .. Len(contour_panels) |->
                         contour_panel(i - 1, contour_panels[i], im, crop_info)]
          IN /\ Drawing(Answer("save", <<>>, built, ""))
             /\ IF built < Len(contour_panels)
                THEN /\ panels' = SubSeq(all, 1, built)
                     /\ result' = error_envelope("panel extraction")
                     /\ ran' = ran \cup {"contour_path", "except"}
                ELSE /\ panels' = sort_contour_panels(all)
                     /\ result' = success_envelope(panels', reading_order(Len(panels')), im)
                     /\ ran' = ran \cup {"contour_path"}
    /\ pc' = "done"
    /\ UNCHANGED <<im, cropped_im, crop_info, panel_boxes, combo, contour_panels,
                   lines, segment_lines, h_pos, v_pos, earlier, cli, scan>>

\* Fallback to line-based detection: probabilistic_hough_line, angle filter;
\* found: what probabilistic_hough_line may return
DetectLinesFrom(found) ==
    /\ pc = "detected"
    /\ ~use_contours
    /\ lines' \in found
    /\ segment_lines' = angle_filter(lines', ImprovedPreset.angle_deviation)
    /\ pc' = "merge"
    /\ ran' = ran \cup {"lines"}
    /\ UNCHANGED <<im, cropped_im, crop_info, panel_boxes, combo, contour_panels,
                   h_pos, v_pos, panels, result, drawn, earlier, cli, scan>>

DetectLines ==
    DetectLinesFrom(SeqsUpTo(LineCands(cropped_im.width, cropped_im.height), MaxLines))

\* Merge inline segments
MergeInline ==
    /\ pc = "merge"
    /\ segment_lines' = merge_inline_segments(segment_lines, ImprovedPreset.distance)
    /\ pc' = "cut"
    /\ UNCHANGED <<im, cropped_im, crop_info, panel_boxes, combo, contour_panels,
                   lines, h_pos, v_pos, panels, result, ran, drawn, earlier, cli, scan>>

\* from "Filter lines by length" to "Create vertical cutting lines"
CutPositions ==
    /\ pc = "cut"
    /\ LET cfg == ImprovedPreset
           W == cropped_im.width
           H == cropped_im.height
           cutting_lines == length_filter(segment_lines, hor_line_length(cfg, W),
                                          ver_line_length(cfg, H))
           merged == new_parallel_merge(
                         horizontal_positions(cutting_lines, height_border(cfg, H), H),
                         parallel_merge_dst(cfg, W, H))
           hpos == with_sentinels(merged, H)
           clamped == clamp_spans(vertical_positions(cutting_lines, width_border(cfg, W), W),
                                  hpos)
       IN /\ h_pos' = hpos
          /\ v_pos' = merge_parallel_vertical(clamped, parallel_merge_dst(cfg, W, H))
    /\ pc' = "grid"
    /\ UNCHANGED <<im, cropped_im, crop_info, panel_boxes, combo, contour_panels,
                   lines, segment_lines, panels, result, ran, drawn, earlier, cli, scan>>

\* from "Remove duplicate horizontal positions" to the return.  raised: what
\* the encoder raises on an empty region; built: how many candidates the
\* loops appended before an unexpected failure, at the first or at the last
\* extraction (all of them: none failed)
BuildGrid ==
    /\ pc = "grid"
    /\ \E raised \in EncoderErrors :
          LET hpos == SortedSeq(Range(h_pos))
              W == cropped_im.width
              caught == raised = "ValueError"
              candidates == grid_candidates(hpos, 1, v_pos, W, im, crop_info, caught)
          IN \E built \in {0, Len(candidates) - 1, Len(candidates)} \cap Nat :
                /\ Drawing(Answer("save", <<>>, built, raised))
                /\ IF \/ built < Len(candidates)
                      \/ grid_raises(hpos, v_pos, W, im, crop_info) /\ ~caught
                   THEN /\ panels' = line_panels(SubSeq(candidates, 1, built))
                        /\ result' = error_envelope("panel extraction")
                        /\ ran' = ran \cup {"grid", "except"}
                   ELSE /\ panels' = with_fallback(line_panels(candidates), im)
                        /\ result' = success_envelope(panels', reading_order(Len(panels')), im)
                        /\ ran' = ran \cup {"grid"}
    /\ pc' = "done"
    /\ UNCHANGED <<im, cropped_im, crop_info, panel_boxes, combo, contour_panels,
                   lines, segment_lines, h_pos, v_pos, earlier, cli, scan>>

\* except Exception as e: a stage raised
FailingStages == {"start", "decoded", "cropped", "secondary", "resolve", "detected",
                  "merge", "cut"}

Fail ==
    /\ pc \in FailingStages
    /\ Drawing(Answer("raise", <<>>, 0, pc))
    /\ panels' = panels
    /\ result' = error_envelope(pc)
    /\ pc' = "done"
    /\ ran' = ran \cup {"except"}
    /\ UNCHANGED <<im, cropped_im, crop_info, panel_boxes, combo, contour_panels,
                   lines, segment_lines, h_pos, v_pos, earlier, cli, scan>>

Next ==
    \/ Decode \/ Crop \/ DetectPrimary \/ DetectSecondary \/ Resolve
    \/ ContourPath \/ DetectLines \/ MergeInline \/ CutPositions \/ BuildGrid
    \/ Fail

Spec == Init /\ [][Next]_vars

(***************************************************************************)
(* The legacy variant (src/lib/panel_segmentation.py): no crop, no contour *)
(* detector, its own preset, cells enumerated right to left and numbered   *)
(* as they are appended.                                                   *)
(***************************************************************************)
LegacyPreset ==
    [angle_deviation |-> 0, distance |-> 999999999,
     width_border_pct |-> 10, height_border_pct |-> 9,
     hor_line_length_pct |-> 40, ver_line_length_pct |-> 22,
     parallel_merge_dst_pct |-> 10, parallel_merge_cap |-> 50]

\* for j in range(len(cutting_points) - 1, 0, -1): the cells of one band
legacy_band_cells(lb, ub, vlines, W) ==
    LET cuts == verticalcuts(lb, ub, vlines)
    IN IF cuts # <<>>
       THEN LET cutting_points == SortedSeq(Range(<<0>> \o cuts \o <<W - 1>>))
                n == Len(cutting_points)
            IN [k \in 1 .. n - 1 |->
                   <<cutting_points[n - k], lb, cutting_points[n - k + 1], ub>>]
       ELSE <<<<0, lb, W - 1, ub>>>>

\* the bands from band i on; the handler of a band keeps what it appended
RECURSIVE legacy_grid_candidates(_, _, _, _, _, _)
legacy_grid_candidates(hpos, i, vlines, W, image, caught) ==
    IF i > Len(hpos) - 1 THEN <<>>
    ELSE LET cells == legacy_band_cells(hpos[i], hpos[i + 1], vlines, W)
             here == band_candidates(cells, image, NoCrop)
         IN IF band_raises(cells, image, NoCrop) /\ ~caught THEN here
            ELSE here \o legacy_grid_candidates(hpos, i + 1, vlines, W, image, caught)

legacy_grid_raises(hpos, vlines, W, image) ==
    \E i \in 1 .. Len(hpos) - 1 :
        band_raises(legacy_band_cells(hpos[i], hpos[i + 1], vlines, W), image, NoCrop)

\* panel_data with id and readingOrderIndex order_ctr, in the order appended
legacy_panels(candidates) ==
    [i \in 1 .. Len(candidates) |->
        [id |-> <<"panel", i - 1>>,
         boundingBox |-> candidates[i].boundingBox,
         imageData |-> candidates[i].imageData,
         readingOrderIndex |-> i - 1,
         from |-> candidates[i].from]]

\* reading_order.append(order_ctr); reading_order = [0] in the fallback
legacy_reading_order(n) == [i \in 1 .. n |-> i - 1]

LegacyInit ==
    /\ pc = "legacy_start"
    /\ im = NoImage
    /\ cropped_im = NoImage
    /\ crop_info = NoCrop
    /\ Idle

LegacyDecode ==
    /\ pc = "legacy_start"
    /\ im' \in PipeImages
    /\ pc' = "legacy_decoded"
    /\ ran' = ran \cup {"decode"}
    /\ UNCHANGED <<cropped_im, crop_info, panel_boxes, combo, contour_panels, lines,
                   segment_lines, h_pos, v_pos, panels, result, drawn, earlier, cli, scan>>

\* probabilistic_hough_line on the whole image, angle filter
LegacyDetectLines ==
    /\ pc = "legacy_decoded"
    /\ lines' \in SeqsUpTo(LineCands(im.width, im.height), MaxLines)
    /\ segment_lines' = angle_filter(lines', LegacyPreset.angle_deviation)
    /\ pc' = "legacy_merge"
    /\ ran' = ran \cup {"lines"}
    /\ UNCHANGED <<im, cropped_im, crop_info, panel_boxes, combo, contour_panels,
                   h_pos, v_pos, panels, result, drawn, earlier, cli, scan>>

LegacyMergeInline ==
    /\ pc = "legacy_merge"
    /\ segment_lines' = merge_inline_segments(segment_lines, LegacyPreset.distance)
    /\ pc' = "legacy_cut"
    /\ UNCHANGED <<im, cropped_im, crop_info, panel_boxes, combo, contour_panels,
                   lines, h_pos, v_pos, panels, result, ran, drawn, earlier, cli, scan>>

LegacyCutPositions ==
    /\ pc = "legacy_cut"
    /\ LET cfg == LegacyPreset
           W == im.width
           H == im.height
           cutting_lines == length_filter(segment_lines, hor_line_length(cfg, W),
                                          ver_line_length(cfg, H))
           merged == new_parallel_merge(
                         horizontal_positions(cutting_lines, height_border(cfg, H), H),
                         parallel_merge_dst(cfg, W, H))
           hpos == with_sentinels(merged, H)
           clamped == clamp_spans(vertical_positions(cutting_lines, width_border(cfg, W), W),
                                  hpos)
       IN /\ h_pos' = hpos
          /\ v_pos' = merge_parallel_vertical(clamped, parallel_merge_dst(cfg, W, H))
    /\ pc' = "legacy_grid"
    /\ UNCHANGED <<im, cropped_im, crop_info, panel_boxes, combo, contour_panels,
                   lines, segment_lines, panels, result, ran, drawn, earlier, cli, scan>>

\* from "Remove duplicate horizontal positions" to the return
LegacyBuildGrid ==
    /\ pc = "legacy_grid"
    /\ \E raised \in EncoderErrors :
          LET hpos == SortedSeq(Range(h_pos))
              caught == raised = "ValueError"
              candidates == legacy_grid_candidates(hpos, 1, v_pos, im.width, im, caught)
          IN \E built \in {0, Len(candidates) - 1, Len(candidates)} \cap Nat :
                IF \/ built < Len(candidates)
                   \/ legacy_grid_raises(hpos, v_pos, im.width, im) /\ ~caught
                THEN /\ panels' = legacy_panels(SubSeq(candidates, 1, built))
                     /\ result' = error_envelope("panel extraction")
                     /\ ran' = ran \cup {"grid", "except"}
                ELSE /\ panels' = with_fallback(legacy_panels(candidates), im)
                     /\ result' = success_envelope(panels',
                                                   legacy_reading_order(Len(panels')), im)
                     /\ ran' = ran \cup {"grid"}
    /\ pc' = "done"
    /\ UNCHANGED <<im, cropped_im, crop_info, panel_boxes, combo, contour_panels,
                   lines, segment_lines, h_pos, v_pos, drawn, earlier, cli, scan>>

LegacyFailingStages == {"legacy_start", "legacy_decoded", "legacy_merge", "legacy_cut"}

LegacyFail ==
    /\ pc \in LegacyFailingStages
    /\ panels' = panels
    /\ result' = error_envelope(pc)
    /\ pc' = "done"
    /\ ran' = ran \cup {"except"}
    /\ UNCHANGED <<im, cropped_im, crop_info, panel_boxes, combo, contour_panels,
                   lines, segment_lines, h_pos, v_pos, drawn, earlier, cli, scan>>

LegacyNext ==
    \/ LegacyDecode \/ LegacyDetectLines \/ LegacyMergeInline
    \/ LegacyCutPositions \/ LegacyBuildGrid \/ LegacyFail

SpecLegacy == LegacyInit /\ [][LegacyNext]_vars

(***************************************************************************)
(* Both variants of the line-based path: an invocation of either one       *)
(***************************************************************************)
InitVariants == Init \/ LegacyInit

NextVariants == Next \/ LegacyNext

SpecVariants == InitVariants /\ [][NextVariants]_vars

(***************************************************************************)
(* Scenario A (debug_contour.py, create_simple_test_image): a 600 x 400    *)
(* black canvas, a white rectangle from (50, 50) to (550, 350), a 5-pixel  *)
(* vertical divider at x = 300 and a 5-pixel horizontal divider at y = 200.*)
(* The image keeps the pixels that decide the crop, two opposite corners   *)
(* of the white rectangle.  The collaborators see each divider as two      *)
(* parallel edges and may see the outline of the white rectangle too.      *)
(***************************************************************************)
ScenarioA ==
    [width |-> 600, height |-> 400,
     left |-> 50, top |-> 50, right |-> 550, bottom |-> 350,
     vdiv |-> 300, hdiv |-> 200]

ScenarioAImage ==
    [width |-> ScenarioA.width, height |-> ScenarioA.height,
     gray |-> [p \in {<<ScenarioA.top, ScenarioA.left>>,
                      <<ScenarioA.bottom, ScenarioA.right>>} |-> 255]]

Perms(S) ==
    {q \in [1 .. Cardinality(S) -> S] : \A i, j \in DOMAIN q : i # j => q[i] # q[j]}

Rev(line) == <<line[2], line[1]>>

\* full-height and full-width segments of the white rectangle, in working
\* coordinates, at column x or row y of the original image
ScenarioAVertical(x, crop) ==
    <<<<x - crop[1], ScenarioA.top - crop[2]>>, <<x - crop[1], ScenarioA.bottom - crop[2]>>>>

ScenarioAHorizontal(y, crop) ==
    <<<<ScenarioA.left - crop[1], y - crop[2]>>, <<ScenarioA.right - crop[1], y - crop[2]>>>>

\* the two edges of each divider, d pixels on either side of its centre
ScenarioADividerEdges(d, crop) ==
    {ScenarioAVertical(ScenarioA.vdiv - d, crop), ScenarioAVertical(ScenarioA.vdiv + d, crop),
     ScenarioAHorizontal(ScenarioA.hdiv - d, crop), ScenarioAHorizontal(ScenarioA.hdiv + d, crop)}

ScenarioAOutline(crop) ==
    <<ScenarioAHorizontal(ScenarioA.top, crop), ScenarioAHorizontal(ScenarioA.bottom, crop),
      ScenarioAVertical(ScenarioA.left, crop), ScenarioAVertical(ScenarioA.right, crop)>>

\* the divider edges in any order and direction, alone or followed by some
\* edges of the outline
ScenarioALines(crop) ==
    UNION {LET orders == Perms(ScenarioADividerEdges(d, crop))
           IN {[i \in 1 .. 4 |-> IF r[i] THEN Rev(q[i]) ELSE q[i]] :
                  q \in orders, r \in [1 .. 4 -> BOOLEAN]}
              \cup {q \o SubSeq(ScenarioAOutline(crop), 1, n) : q \in orders, n \in 1 .. 4}
           : d \in {2, 3}}

\* the four regions between the outline and the dividers, as contours
ScenarioAQuadrants(crop) ==
    {[area |-> (x[2] - x[1] - 1) * (y[2] - y[1] - 1),
      box |-> <<x[1] - crop[1], y[1] - crop[2], x[2] - x[1], y[2] - y[1]>>] :
        x \in {<<ScenarioA.left, ScenarioA.vdiv - 2>>, <<ScenarioA.vdiv + 3, ScenarioA.right + 1>>},
        y \in {<<ScenarioA.top, ScenarioA.hdiv - 2>>, <<ScenarioA.hdiv + 3, ScenarioA.bottom + 1>>}}

\* findContours returns nothing, the outline alone, or the four regions
ScenarioAContours(crop) ==
    {<<>>,
     <<[area |-> (ScenarioA.right - ScenarioA.left) * (ScenarioA.bottom - ScenarioA.top),
        box |-> <<ScenarioA.left - crop[1], ScenarioA.top - crop[2],
                  ScenarioA.right - ScenarioA.left + 1,
                  ScenarioA.bottom - ScenarioA.top + 1>>]>>}
    \cup Perms(ScenarioAQuadrants(crop))

NextScenarioA ==
    \/ DecodeFrom({ScenarioAImage})
    \/ Crop
    \/ DetectPrimaryFrom(ScenarioAContours(crop_info))
    \/ DetectSecondaryFrom(ScenarioAContours(crop_info))
    \/ Resolve
    \/ ContourPath
    \/ DetectLinesFrom(ScenarioALines(crop_info))
    \/ MergeInline
    \/ CutPositions
    \/ BuildGrid
    \/ Fail

SpecScenarioA == Init /\ [][NextScenarioA]_vars

(***************************************************************************)
(* Two invocations, one after the other.  Nothing of segment_manga_panels  *)
(* outlives a call: the module has no global and every local is assigned   *)
(* before it is read, so the second call starts as the first did.          *)
(***************************************************************************)
TwiceImages ==
    {i \in PipeImages : i.width = 400 /\ i.height = 300 /\ Cardinality(DOMAIN i.gray) # 1}

\* nothing, or the two halves of the working image in either order
TwiceContours(W, H) ==
    LET left == [area |-> (W \div 2) * H, box |-> <<0, 0, W \div 2, H>>]
        right == [area |-> (W - W \div 2) * H, box |-> <<W \div 2, 0, W - W \div 2, H>>]
    IN {<<>>, <<left, right>>, <<right, left>>}

\* nothing, or a horizontal and a vertical divider in either order
TwiceLines(W, H) ==
    LET across == <<<<0, H \div 2>>, <<W - 1, H \div 2>>>>
        down == <<<<W \div 2, 0>>, <<W \div 2, H - 1>>>>
    IN {<<>>, <<across, down>>, <<down, across>>}

InitTwice ==
    /\ pc = "start"
    /\ im = NoImage
    /\ cropped_im = NoImage
    /\ crop_info = NoCrop
    /\ Fresh
    /\ drawn = <<>> /\ earlier = NoEarlier("first")
    /\ cli = NoCli
    /\ scan = NoScan

\* the first call has returned; segment_manga_panels is called again
Again ==
    /\ pc = "done"
    /\ earlier.mode = "first"
    /\ earlier' = [mode |-> "second", image |-> im, drawn |-> drawn,
                   lines |-> lines, result |-> result]
    /\ pc' = "start"
    /\ im' = NoImage
    /\ cropped_im' = NoImage
    /\ crop_info' = NoCrop
    /\ panel_boxes' = <<>> /\ combo' = 0 /\ contour_panels' = <<>>
    /\ lines' = <<>> /\ segment_lines' = <<>> /\ h_pos' = <<>> /\ v_pos' = <<>>
    /\ panels' = <<>> /\ result' = NoResult /\ ran' = {}
    /\ drawn' = <<>>
    /\ UNCHANGED <<cli, scan>>

NextTwice ==
    \/ DecodeFrom(TwiceImages)
    \/ Crop
    \/ DetectPrimaryFrom(TwiceContours(cropped_im.width, cropped_im.height))
    \/ DetectSecondaryFrom({c \in TwiceContours(cropped_im.width, cropped_im.height) :
                                c = <<>> \/ c[1].box[1] = 0})
    \/ Resolve
    \/ ContourPath
    \/ DetectLinesFrom(TwiceLines(cropped_im.width, cropped_im.height))
    \/ MergeInline
    \/ CutPositions
    \/ BuildGrid
    \/ Fail
    \/ Again

SpecTwice == InitTwice /\ [][NextTwice]_vars

(***************************************************************************)
(* The command-line entry point of both variants.  The improved variant    *)
(* takes the image from its one argument or else from standard input; the  *)
(* legacy variant only from its one argument.                              *)
(***************************************************************************)
\* an argument or the text on standard input: nothing, blanks, the base64 of
\* an image (bare or with blanks and a newline around it), something else
Texts == {"", " ", "image", " image ", "junk"}

\* sys.stdin.read() raised
ReadError == "<read error>"

\* str.strip()
strip(text) ==
    CASE text = " " -> ""
      [] text = " image " -> "image"
      [] OTHER -> text

\* main ends after print(json.dumps(result)): the status does not look at result
exit_status_Checked(res) == IF res.has_error THEN 1 ELSE 0

exit_status(res) == 0

MaxArgs == 2

InitCli ==
    /\ pc = "main"
    /\ im = NoImage
    /\ cropped_im = NoImage
    /\ crop_info = NoCrop
    /\ Fresh
    /\ drawn = <<>> /\ earlier = NoEarlier("single")
    /\ cli \in [variant : {"improved", "legacy"},
                args : SeqsUpTo({"", "image", "junk"}, MaxArgs),
                stdin : Texts \cup {ReadError},
                image_base64 : {""}, printed : {""}, status : {-1}]
    /\ scan = NoScan

\* print of the error envelope, sys.exit(1)
Exit1(printed) ==
    /\ cli' = [cli EXCEPT !.printed = printed, !.status = 1]
    /\ pc' = "exited"

\* result = segment_manga_panels(image_base64)
Call(image_base64, entry) ==
    /\ cli' = [cli EXCEPT !.image_base64 = image_base64]
    /\ pc' = entry

Main ==
    /\ pc = "main"
    /\ cli.variant = "improved"
    /\ IF Len(cli.args) + 1 = 2
       THEN Call(cli.args[1], "start")
       ELSE IF cli.stdin = ReadError
            THEN Exit1("Failed to read input")
            ELSE IF strip(cli.stdin) = ""
                 THEN Exit1("No input data provided")
                 ELSE Call(strip(cli.stdin), "start")
    /\ UNCHANGED <<im, cropped_im, crop_info, panel_boxes, combo, contour_panels, lines,
                   segment_lines, h_pos, v_pos, panels, result, ran, drawn, earlier, scan>>

LegacyMain ==
    /\ pc = "main"
    /\ cli.variant = "legacy"
    /\ IF Len(cli.args) + 1 # 2
       THEN Exit1("Usage")
       ELSE Call(cli.args[1], "legacy_start")
    /\ UNCHANGED <<im, cropped_im, crop_info, panel_boxes, combo, contour_panels, lines,
                   segment_lines, h_pos, v_pos, panels, result, ran, drawn, earlier, scan>>

\* base64.b64decode and Image.open give an image only for the base64 of one
MainDecode ==
    /\ cli.image_base64 = "image"
    /\ DecodeFrom(TwiceImages)

LegacyMainDecode ==
    /\ cli.image_base64 = "image"
    /\ LegacyDecode

\* print(json.dumps(result, indent=2)) and the end of main
MainReturn ==
    /\ pc = "done"
    /\ cli.variant # "none"
    /\ cli' = [cli EXCEPT !.printed = "result", !.status = exit_status(result)]
    /\ pc' = "exited"
    /\ UNCHANGED <<im, cropped_im, crop_info, panel_boxes, combo, contour_panels, lines,
                   segment_lines, h_pos, v_pos, panels, result, ran, drawn, earlier, scan>>

NextCli ==
    \/ Main
    \/ LegacyMain
    \/ MainDecode
    \/ LegacyMainDecode
    \/ Crop
    \/ DetectPrimaryFrom(TwiceContours(cropped_im.width, cropped_im.height))
    \/ DetectSecondaryFrom({c \in TwiceContours(cropped_im.width, cropped_im.height) :
                                c = <<>> \/ c[1].box[1] = 0})
    \/ Resolve
    \/ ContourPath
    \/ DetectLinesFrom(TwiceLines(cropped_im.width, cropped_im.height))
    \/ MergeInline
    \/ CutPositions
    \/ BuildGrid
    \/ Fail
    \/ LegacyDetectLines
    \/ LegacyMergeInline
    \/ LegacyCutPositions
    \/ LegacyBuildGrid
    \/ LegacyFail
    \/ MainReturn

SpecCli == InitCli /\ [][NextCli]_vars

(***************************************************************************)
(* The inline merge of segment_manga_panels followed pair by pair: for     *)
(* each orientation, segment_line runs over a copy of the list taken when  *)
(* the pass starts and segment_line2 over a copy taken when the inner loop *)
(* starts, while the merges change the list itself.                        *)
(***************************************************************************)
MaxSegs == 3

\* the same extent on three rows (two of them also drawn right to left), a
\* segment further along one of the rows, the same extent on two columns
MergeSegments ==
    {<<<<0, 2>>, <<10, 2>>>>, <<<<0, 5>>, <<10, 5>>>>, <<<<0, 8>>, <<10, 8>>>>,
     <<<<10, 2>>, <<0, 2>>>>, <<<<10, 5>>, <<0, 5>>>>,
     <<<<20, 5>>, <<30, 5>>>>,
     <<<<3, 0>>, <<3, 10>>>>, <<<<6, 0>>, <<6, 10>>>>}

InitMerge ==
    /\ pc = "pass"
    /\ im = NoImage
    /\ cropped_im = NoImage
    /\ crop_info = NoCrop
    /\ panel_boxes = <<>> /\ combo = 0 /\ contour_panels = <<>>
    /\ lines = <<>> /\ h_pos = <<>> /\ v_pos = <<>>
    /\ panels = <<>> /\ result = NoResult /\ ran = {}
    /\ drawn = <<>> /\ earlier = NoEarlier("single")
    /\ cli = NoCli
    /\ segment_lines \in SeqsUpTo(MergeSegments, MaxSegs)
    /\ scan = [NoScan EXCEPT !.input = segment_lines]

\* for segment_line in segment_lines[:]: the copy, and the first inner copy
BeginPass ==
    /\ pc = "pass"
    /\ IF segment_lines = <<>>
       THEN /\ pc' = IF scan.orientation = 1 THEN "pass" ELSE "merged"
            /\ scan' = [scan EXCEPT !.orientation = 0, !.last = NoStep]
       ELSE /\ pc' = "scan"
            /\ scan' = [scan EXCEPT !.outer = segment_lines, !.inner = segment_lines,
                                    !.last = NoStep]
    /\ UNCHANGED <<im, cropped_im, crop_info, panel_boxes, combo, contour_panels, lines,
                   segment_lines, h_pos, v_pos, panels, result, ran, drawn, earlier, cli>>

\* the body of the inner loop for one pair, and the loop headers that follow
ScanPair ==
    /\ pc = "scan"
    /\ LET segment_line == Head(scan.outer)
           segment_line2 == Head(scan.inner)
           working == merge_step(segment_lines, segment_line, segment_line2,
                                 scan.orientation, ImprovedPreset.distance)
           new_line == merge_line(segment_line, segment_line2,
                                  scan.orientation, ImprovedPreset.distance)
           step == [merged |-> /\ segment_line # segment_line2
                               /\ in_line(segment_line, segment_line2, scan.orientation)
                               /\ new_line # segment_line,
                    present |-> segment_line \in Range(segment_lines),
                    before |-> Len(segment_lines), after |-> Len(working)]
           inner_done == Len(scan.inner) = 1
           outer_done == inner_done /\ Len(scan.outer) = 1
       IN /\ segment_lines' = working
          /\ pc' = IF ~outer_done THEN "scan"
                   ELSE IF scan.orientation = 1 THEN "pass" ELSE "merged"
          /\ scan' = [scan EXCEPT
                         !.inner = IF inner_done THEN working ELSE Tail(scan.inner),
                         !.outer = IF inner_done THEN Tail(scan.outer) ELSE scan.outer,
                         !.orientation = IF outer_done THEN 0 ELSE scan.orientation,
                         !.horizontal = IF outer_done /\ scan.orientation = 1
                                        THEN working ELSE scan.horizontal,
                         !.last = step]
    /\ UNCHANGED <<im, cropped_im, crop_info, panel_boxes, combo, contour_panels, lines,
                   h_pos, v_pos, panels, result, ran, drawn, earlier, cli>>

NextMerge == BeginPass \/ ScanPair

SpecMerge == InitMerge /\ [][NextMerge]_vars

(***************************************************************************)
(* The final overlap resolution of detect_panels_contour_based followed    *)
(* box by box: panel_boxes is sorted in place, then each box is compared   *)
(* with the boxes kept so far (filtered_boxes, here contour_panels).       *)
(***************************************************************************)
MaxBoxes == 3

\* a large box; a smaller one with 40% of its area inside the large one; one
\* with exactly 30% inside the large one and nearly all of it inside the
\* second; a box apart from them; one as large as the first, half inside it;
\* a small one inside the first.  All pass the size filters.
OverlapBoxes ==
    {<<0, 0, 200, 200>>, <<150, 0, 125, 200>>, <<167, 0, 110, 200>>,
     <<300, 0, 101, 101>>, <<0, 100, 200, 200>>, <<10, 10, 110, 110>>}

InitOverlap ==
    /\ pc = "overlap_in"
    /\ im = NoImage
    /\ cropped_im = NoImage
    /\ crop_info = NoCrop
    /\ combo = 0 /\ contour_panels = <<>>
    /\ lines = <<>> /\ segment_lines = <<>> /\ h_pos = <<>> /\ v_pos = <<>>
    /\ panels = <<>> /\ result = NoResult /\ ran = {}
    /\ drawn = <<>> /\ earlier = NoEarlier("single")
    /\ cli = NoCli
    /\ scan = NoScan
    /\ panel_boxes \in SeqsUpTo(OverlapBoxes, MaxBoxes)

\* filtered_boxes = [], panel_boxes.sort(...), the header of the loop
ResolveBegin ==
    /\ pc = "overlap_in"
    /\ panel_boxes' = by_area_descending(panel_boxes)
    /\ contour_panels' = <<>>
    /\ scan' = [scan EXCEPT !.outer = by_area_descending(panel_boxes)]
    /\ pc' = IF panel_boxes = <<>> THEN "overlap_out" ELSE "overlap_visit"
    /\ UNCHANGED <<im, cropped_im, crop_info, combo, lines, segment_lines,
                   h_pos, v_pos, panels, result, ran, drawn, earlier, cli>>

\* the body of "for box in panel_boxes" for one box
ResolveVisit ==
    /\ pc = "overlap_visit"
    /\ LET box == Head(scan.outer)
       IN contour_panels' = IF is_overlapping(box, contour_panels)
                            THEN contour_panels
                            ELSE Append(contour_panels, box)
    /\ scan' = [scan EXCEPT !.outer = Tail(scan.outer)]
    /\ pc' = IF Len(scan.outer) = 1 THEN "overlap_out" ELSE "overlap_visit"
    /\ UNCHANGED <<im, cropped_im, crop_info, panel_boxes, combo, lines, segment_lines,
                   h_pos, v_pos, panels, result, ran, drawn, earlier, cli>>

NextOverlap == ResolveBegin \/ ResolveVisit

SpecOverlap == InitOverlap /\ [][NextOverlap]_vars

(***************************************************************************)
(* The cut positions and the grid of the line-based path on their own,     *)
(* for both variants: parallel merge of the horizontal positions, the      *)
(* sentinels and the clamp of the vertical spans, the merge of the         *)
(* vertical candidates, the grid.  The working image is blank and not      *)
(* cropped.                                                                *)
(***************************************************************************)
MaxHCuts == 2
MaxVCuts == 3

CutDims == {<<60, 40>>, <<1, 40>>, <<60, 1>>, <<2, 2>>}

Blank(W, H) == [width |-> W, height |-> H, gray |-> <<>>]

PresetOf(variant) == IF variant = "legacy" THEN LegacyPreset ELSE ImprovedPreset

\* rows that pass "p0r > height_border and p0r < im_height - height_border"
HCands(cfg, H) ==
    {p \in {5, 10, 12} : p > height_border(cfg, H) /\ p < H - height_border(cfg, H)}

\* <<p0c, lower_b, upper_b>> with "p0c > width_border and p0c < im_width -
\* width_border" and the span inside the image
VCands(cfg, W, H) ==
    {v \in {<<20, 0, 39>>, <<24, 0, 39>>, <<26, 15, 39>>, <<40, 11, 20>>} :
        /\ v[1] > width_border(cfg, W) /\ v[1] < W - width_border(cfg, W)
        /\ v[3] <= H - 1}

CutScan(h, v) ==
    [input |-> [h |-> h, v |-> v], clamped |-> <<>>, orientation |-> 1,
     outer |-> <<>>, inner |-> <<>>, horizontal |-> <<>>, last |-> NoStep]

InitCuts ==
    /\ pc = "cuts_in"
    /\ \E d \in CutDims :
          /\ im = Blank(d[1], d[2])
          /\ cropped_im = im
          /\ crop_info = <<0, 0, d[1], d[2]>>
    /\ panel_boxes = <<>> /\ combo = 0 /\ contour_panels = <<>>
    /\ lines = <<>> /\ segment_lines = <<>>
    /\ panels = <<>> /\ result = NoResult /\ ran = {}
    /\ drawn = <<>> /\ earlier = NoEarlier("single")
    /\ cli \in {[NoCli EXCEPT !.variant = v] : v \in {"improved", "legacy"}}
    /\ h_pos \in SeqsUpTo(HCands(PresetOf(cli.variant), im.height), MaxHCuts)
    /\ v_pos \in SeqsUpTo(VCands(PresetOf(cli.variant), im.width, im.height), MaxVCuts)
    /\ scan = CutScan(h_pos, v_pos)

\* horizontal_c_pos = new_parallel_merge(horizontal_c_pos, parallel_merge_dst)
CutsParallelMerge ==
    /\ pc = "cuts_in"
    /\ h_pos' = new_parallel_merge(h_pos, parallel_merge_dst(PresetOf(cli.variant),
                                                             im.width, im.height))
    /\ pc' = "cuts_h"
    /\ UNCHANGED <<im, cropped_im, crop_info, panel_boxes, combo, contour_panels, lines,
                   segment_lines, v_pos, panels, result, ran, drawn, earlier, cli, scan>>

\* the sentinels, then "Adjust vertical line bounds"
CutsClamp ==
    /\ pc = "cuts_h"
    /\ h_pos' = with_sentinels(h_pos, im.height)
    /\ v_pos' = clamp_spans(v_pos, with_sentinels(h_pos, im.height))
    /\ scan' = [scan EXCEPT !.clamped = v_pos']
    /\ pc' = "cuts_clamped"
    /\ UNCHANGED <<im, cropped_im, crop_info, panel_boxes, combo, contour_panels, lines,
                   segment_lines, panels, result, ran, drawn, earlier, cli>>

\* "Merge parallel vertical lines"
CutsVerticalMerge ==
    /\ pc = "cuts_clamped"
    /\ v_pos' = merge_parallel_vertical(v_pos, parallel_merge_dst(PresetOf(cli.variant),
                                                                  im.width, im.height))
    /\ pc' = "cuts_v"
    /\ UNCHANGED <<im, cropped_im, crop_info, panel_boxes, combo, contour_panels, lines,
                   segment_lines, h_pos, panels, result, ran, drawn, earlier, cli, scan>>

\* the grid and the fallback of the improved variant; an uncaught error of
\* the encoder ends in the handler and no panel is returned
CutsGrid ==
    /\ pc = "cuts_v"
    /\ cli.variant = "improved"
    /\ \E raised \in EncoderErrors :
          LET hpos == SortedSeq(Range(h_pos))
              caught == raised = "ValueError"
          IN IF grid_raises(hpos, v_pos, im.width, im, crop_info) /\ ~caught
             THEN panels' = <<>> /\ ran' = {"grid", "except"}
             ELSE /\ panels' = with_fallback(line_panels(grid_candidates(
                                    hpos, 1, v_pos, im.width, im, crop_info, caught)), im)
                  /\ ran' = {"grid"}
    /\ pc' = "cuts_out"
    /\ UNCHANGED <<im, cropped_im, crop_info, panel_boxes, combo, contour_panels, lines,
                   segment_lines, h_pos, v_pos, result, drawn, earlier, cli, scan>>

\* the same of the legacy variant
CutsLegacyGrid ==
    /\ pc = "cuts_v"
    /\ cli.variant = "legacy"
    /\ \E raised \in EncoderErrors :
          LET hpos == SortedSeq(Range(h_pos))
              caught == raised = "ValueError"
          IN IF legacy_grid_raises(hpos, v_pos, im.width, im) /\ ~caught
             THEN panels' = <<>> /\ ran' = {"grid", "except"}
             ELSE /\ panels' = with_fallback(legacy_panels(legacy_grid_candidates(
                                    hpos, 1, v_pos, im.width, im, caught)), im)
                  /\ ran' = {"grid"}
    /\ pc' = "cuts_out"
    /\ UNCHANGED <<im, cropped_im, crop_info, panel_boxes, combo, contour_panels, lines,
                   segment_lines, h_pos, v_pos, result, drawn, earlier, cli, scan>>

NextCuts ==
    \/ CutsParallelMerge
    \/ CutsClamp
    \/ CutsVerticalMerge
    \/ CutsGrid
    \/ CutsLegacyGrid

SpecCuts == InitCuts /\ [][NextCuts]_vars

(***************************************************************************)
(* detect_panels_contour_based followed contour by contour on a 500 x 400  *)
(* working image: the loop of Method 1, the loops of Method 2 over the     *)
(* (block_size, c_value) pairs, the overlap resolution.  scan.rest: the    *)
(* contours of the current findContours result not visited yet;            *)
(* scan.visited: the pairs entered; scan.last: the contour of that result  *)
(* visited last and panel_boxes before the visit.                          *)
(***************************************************************************)
MaxFound == 3

ContourDims == <<500, 400>>

Contour(area, box) == [area |-> area, box |-> box]

\* two halves of the upper half; a contour of exactly 2% of the image area
\* and one of exactly 90%; two contours away from the edges, of 4.5% and of
\* more than 5% of the image area
PrimaryCands ==
    {Contour(50000, <<0, 0, 250, 200>>), Contour(50000, <<250, 0, 250, 200>>),
     Contour(4000, <<0, 0, 101, 101>>), Contour(180000, <<0, 0, 500, 400>>),
     Contour(9000, <<100, 100, 101, 101>>), Contour(10100, <<100, 100, 101, 101>>)}

\* the four quarters; a box with exactly half of its area in each of the
\* upper quarters; a small box nearly inside the first quarter; a box
\* exactly 100 wide
SecondaryCands ==
    {Contour(50000, <<0, 0, 250, 200>>), Contour(50000, <<250, 0, 250, 200>>),
     Contour(50000, <<0, 200, 250, 200>>), Contour(50000, <<250, 200, 250, 200>>),
     Contour(50000, <<125, 0, 250, 200>>), Contour(9000, <<100, 100, 101, 101>>),
     Contour(40000, <<0, 0, 100, 400>>)}

NoVisit == [stage |-> "none", contour |-> Contour(0, <<0, 0, 0, 0>>), before |-> <<>>]

ContourScan(contours) ==
    [rest |-> contours, visited |-> <<>>, primary |-> -1, last |-> NoVisit]

InitContours ==
    /\ pc = "primary_loop"
    /\ im = Blank(ContourDims[1], ContourDims[2])
    /\ cropped_im = im
    /\ crop_info = <<0, 0, ContourDims[1], ContourDims[2]>>
    /\ Fresh
    /\ drawn = <<>> /\ earlier = NoEarlier("single")
    /\ cli = NoCli
    /\ scan \in {ContourScan(contours) : contours \in SeqsUpTo(PrimaryCands, MaxFound)}

\* Method 1, the body of "for contour in contours" for one contour
PrimaryVisit ==
    /\ pc = "primary_loop"
    /\ scan.rest # <<>>
    /\ LET c == Head(scan.rest)
       IN /\ panel_boxes' = IF primary_accepts(c, cropped_im.width, cropped_im.height)
                            THEN Append(panel_boxes, c.box)
                            ELSE panel_boxes
          /\ scan' = [scan EXCEPT !.rest = Tail(scan.rest),
                                  !.last = [stage |-> "primary", contour |-> c,
                                            before |-> panel_boxes]]
    /\ UNCHANGED <<pc, im, cropped_im, crop_info, combo, contour_panels, lines,
                   segment_lines, h_pos, v_pos, panels, result, ran, drawn, earlier, cli>>

\* the end of the loop of Method 1 and "if len(panel_boxes) < 2": the first
\* (block_size, c_value) and what findContours returns for it
PrimaryEnd ==
    /\ pc = "primary_loop"
    /\ scan.rest = <<>>
    /\ IF Len(panel_boxes) < 2
       THEN /\ pc' = "secondary_loop"
            /\ combo' = 1
            /\ \E contours \in SeqsUpTo(SecondaryCands, MaxFound) :
                  scan' = [scan EXCEPT !.rest = contours,
                                       !.visited = <<Combos[1]>>,
                                       !.primary = Len(panel_boxes),
                                       !.last = NoVisit]
       ELSE /\ pc' = "resolve_boxes"
            /\ combo' = 0
            /\ scan' = [scan EXCEPT !.primary = Len(panel_boxes)]
    /\ UNCHANGED <<im, cropped_im, crop_info, panel_boxes, contour_panels, lines,
                   segment_lines, h_pos, v_pos, panels, result, ran, drawn, earlier, cli>>

\* Method 2, the body of "for contour in contours" for one contour
SecondaryVisit ==
    /\ pc = "secondary_loop"
    /\ scan.rest # <<>>
    /\ LET c == Head(scan.rest)
       IN /\ panel_boxes' = secondary_scan(panel_boxes, <<c>>,
                                           cropped_im.width, cropped_im.height)
          /\ scan' = [scan EXCEPT !.rest = Tail(scan.rest),
                                  !.last = [stage |-> "secondary", contour |-> c,
                                            before |-> panel_boxes]]
    /\ UNCHANGED <<pc, im, cropped_im, crop_info, combo, contour_panels, lines,
                   segment_lines, h_pos, v_pos, panels, result, ran, drawn, earlier, cli>>

\* the end of the contours of one pair: "if len(panel_boxes) >= 3: break" of
\* both loops, else the next pair and what findContours returns for it
SecondaryEnd ==
    /\ pc = "secondary_loop"
    /\ scan.rest = <<>>
    /\ IF Len(panel_boxes) >= EnoughPanels \/ combo = Len(Combos)
       THEN /\ pc' = "resolve_boxes"
            /\ combo' = 0
            /\ scan' = scan
       ELSE /\ pc' = "secondary_loop"
            /\ combo' = combo + 1
            /\ \E contours \in SeqsUpTo(SecondaryCands, MaxFound) :
                  scan' = [scan EXCEPT !.rest = contours,
                                       !.visited = Append(scan.visited, Combos[combo + 1]),
                                       !.last = NoVisit]
    /\ UNCHANGED <<im, cropped_im, crop_info, panel_boxes, contour_panels, lines,
                   segment_lines, h_pos, v_pos, panels, result, ran, drawn, earlier, cli>>

\* Remove overlapping boxes, return filtered_boxes
ResolveBoxes ==
    /\ pc = "resolve_boxes"
    /\ contour_panels' = remove_overlapping(panel_boxes)
    /\ pc' = "contours_out"
    /\ UNCHANGED <<im, cropped_im, crop_info, panel_boxes, combo, lines, segment_lines,
                   h_pos, v_pos, panels, result, ran, drawn, earlier, cli, scan>>

NextContours ==
    PrimaryVisit \/ PrimaryEnd \/ SecondaryVisit \/ SecondaryEnd \/ ResolveBoxes

SpecContours == InitContours /\ [][NextContours]_vars

(***************************************************************************)
(* The angle filter on its own, for both variants, over segments as        *)
(* probabilistic_hough_line returns them: ((x0, y0), (x1, y1)).            *)
(***************************************************************************)
MaxAngleLines == 2

\* a row in both directions, a column, segments about 3 degrees off the
\* horizontal rising and falling, segments about 3 degrees off the vertical
\* leaning either way, a diagonal
AngleSegments ==
    {<<<<0, 10>>, <<100, 10>>>>, <<<<100, 10>>, <<0, 10>>>>,
     <<<<50, 0>>, <<50, 100>>>>,
     <<<<0, 10>>, <<100, 15>>>>, <<<<0, 15>>, <<100, 10>>>>,
     <<<<50, 0>>, <<55, 100>>>>, <<<<55, 0>>, <<50, 100>>>>,
     <<<<0, 0>>, <<100, 100>>>>}

InitAngle ==
    /\ pc = "angle_in"
    /\ im = NoImage
    /\ cropped_im = NoImage
    /\ crop_info = NoCrop
    /\ panel_boxes = <<>> /\ combo = 0 /\ contour_panels = <<>>
    /\ segment_lines = <<>> /\ h_pos = <<>> /\ v_pos = <<>>
    /\ panels = <<>> /\ result = NoResult /\ ran = {}
    /\ drawn = <<>> /\ earlier = NoEarlier("single")
    /\ cli \in {[NoCli EXCEPT !.variant = v] : v \in {"improved", "legacy"}}
    /\ scan = NoScan
    /\ lines \in SeqsUpTo(AngleSegments, MaxAngleLines)

\* Filter lines by angle, with the variant's angle_deviation (the comparison
\* with 180 of the improved variant never holds)
AngleFilter ==
    /\ pc = "angle_in"
    /\ segment_lines' = angle_filter(lines, PresetOf(cli.variant).angle_deviation)
    /\ pc' = "angle_out"
    /\ UNCHANGED <<im, cropped_im, crop_info, panel_boxes, combo, contour_panels, lines,
                   h_pos, v_pos, panels, result, ran, drawn, earlier, cli, scan>>

NextAngle == AngleFilter

SpecAngle == InitAngle /\ [][NextAngle]_vars

(***************************************************************************)
(* Claims about one invocation of segment_manga_panels                     *)
(***************************************************************************)
Returned == result.returned
Succeeded == result.returned /\ ~result.has_error
Boxes(ps) == [k \in 1 .. Len(ps) |-> ps[k].boundingBox]
AsBox(bb) == <<bb.x, bb.y, bb.width, bb.height>>
Translated(work, crop) == BoundingBox(work[1] + crop[1], work[2] + crop[2], work[3], work[4])

(***************************************************************************)
(* C1  Strategy selection: the contour branch runs if and only if the      *)
(* detector returned at least 2 candidates; then the line-based builder    *)
(* never runs and the reported panels are exactly the candidates, one      *)
(* panel each.  With 0 or 1 candidates the contour branch never runs, no   *)
(* candidate is reported and every panel comes from the line-based builder *)
(* or the whole-image fallback.                                            *)
(***************************************************************************)
C1_StrategySelection ==
    /\ "contour_path" \in ran => Len(contour_panels) >= 2 /\ ran \cap {"lines", "grid"} = {}
    /\ "lines" \in ran => Len(contour_panels) < 2 /\ "contour_path" \notin ran
    /\ Succeeded =>
          IF Len(contour_panels) >= 2
          THEN /\ "contour_path" \in ran
               /\ Len(result.panels) = Len(contour_panels)
               /\ \A i \in 1 .. Len(contour_panels) :
                     Cardinality({k \in 1 .. Len(result.panels) :
                                     /\ result.panels[k].from.strategy = "contour"
                                     /\ result.panels[k].boundingBox
                                            = Translated(contour_panels[i], crop_info)})
                         = 1
          ELSE /\ {"lines", "grid"} \subseteq ran
               /\ \A k \in 1 .. Len(result.panels) :
                     result.panels[k].from.strategy \in {"line", "whole"}

\* a successful return of three contour candidates
C1_Witness ==
    /\ Succeeded
    /\ Len(contour_panels) = 3
    /\ "contour_path" \in ran

(***************************************************************************)
(* C2  Containment: every reported bounding box has x >= 0, y >= 0,        *)
(* width > 0, height > 0, x + width <= originalImage.width and             *)
(* y + height <= originalImage.height, on the contour path, the line path  *)
(* and the whole-image fallback.                                           *)
(***************************************************************************)
C2_Containment ==
    Returned =>
        \A k \in 1 .. Len(result.panels) :
            LET bb == result.panels[k].boundingBox
            IN /\ bb.x >= 0 /\ bb.y >= 0
               /\ bb.width > 0 /\ bb.height > 0
               /\ bb.x + bb.width <= result.originalImage.width
               /\ bb.y + bb.height <= result.originalImage.height

\* a grid of several cells in an image cropped on the left and on top
C2_Witness ==
    /\ Succeeded
    /\ "grid" \in ran
    /\ Len(result.panels) >= 3
    /\ crop_info[1] > 0 /\ crop_info[2] > 0

(***************************************************************************)
(* C3  Reading-order validity: in every returned result the length of      *)
(* readingOrder equals totalPanels and the number of panels, and its       *)
(* values are a permutation of 1..totalPanels.                             *)
(***************************************************************************)
C3_ReadingOrderValid ==
    Returned =>
        /\ Len(result.readingOrder) = result.totalPanels
        /\ Len(result.panels) = result.totalPanels
        /\ Range(result.readingOrder) = 1 .. result.totalPanels

C3_Witness ==
    /\ Succeeded
    /\ result.totalPanels >= 3

(***************************************************************************)
(* C4  Overlap bound: for every pair of distinct reported panels the area  *)
(* of the intersection of their bounding boxes is at most 30% of the area  *)
(* of the smaller box.                                                     *)
(***************************************************************************)
C4_OverlapBound ==
    Returned =>
        \A i, j \in 1 .. Len(result.panels) :
            i # j =>
                LET a == AsBox(result.panels[i].boundingBox)
                    b == AsBox(result.panels[j].boundingBox)
                IN 100 * overlap_area(a, b) <= 30 * Min(BoxArea(a), BoxArea(b))

\* two reported contour panels that do overlap
C4_Witness ==
    /\ Succeeded
    /\ "contour_path" \in ran
    /\ \E i, j \in 1 .. Len(result.panels) :
          /\ i # j
          /\ overlap_area(AsBox(result.panels[i].boundingBox),
                          AsBox(result.panels[j].boundingBox)) > 0

(***************************************************************************)
(* C5  A result without an error never has zero panels.  When the contour  *)
(* branch is not taken and the line-based builder yields no panel, the     *)
(* result is no error: it is the single panel panel_0 with bounding box    *)
(* (0, 0, original width, original height) and reading order [1].          *)
(***************************************************************************)
LineBuilderYield ==
    grid_candidates(SortedSeq(Range(h_pos)), 1, v_pos, cropped_im.width,
                    im, crop_info, TRUE)

C5_NeverZeroPanels ==
    Succeeded =>
        /\ result.totalPanels >= 1
        /\ ("grid" \in ran /\ LineBuilderYield = <<>>) =>
              /\ result.totalPanels = 1
              /\ result.panels[1].id = <<"panel", 0>>
              /\ result.panels[1].boundingBox = BoundingBox(0, 0, im.width, im.height)
              /\ result.originalImage = [width |-> im.width, height |-> im.height]
              /\ result.readingOrder = <<1>>

\* the fallback was taken in an image of more than one pixel
C5_Witness ==
    /\ Succeeded
    /\ "grid" \in ran
    /\ LineBuilderYield = <<>>
    /\ im.width * im.height > 1

(***************************************************************************)
(* C6  Scenarios B and C: when the detector returns fewer than 2           *)
(* candidates and the line collaborator returns no segment, the result is  *)
(* exactly one panel, the whole original image: (0, 0, original width,     *)
(* original height), with reading order [1].                               *)
(***************************************************************************)
C6_NoLinesWholeImage ==
    (Succeeded /\ "grid" \in ran /\ Len(contour_panels) < 2 /\ lines = <<>>) =>
        /\ result.totalPanels = 1
        /\ result.panels[1].boundingBox = BoundingBox(0, 0, im.width, im.height)
        /\ result.readingOrder = <<1>>

(***************************************************************************)
(* C7  Error envelope: a failure of any stage is not propagated; the call  *)
(* returns an error message with panels = [], totalPanels = 0 and          *)
(* readingOrder = [], and no panel built before the failure is in it.      *)
(***************************************************************************)
C7_ErrorEnvelope ==
    /\ pc = "done" => Returned
    /\ "except" \in ran =>
          /\ Returned
          /\ result.has_error
          /\ result.error \in FailingStages \cup {"panel extraction"}
          /\ result.panels = <<>>
          /\ result.totalPanels = 0
          /\ result.readingOrder = <<>>

\* a failure after panels had been built
C7_Witness ==
    /\ "except" \in ran
    /\ Returned /\ result.has_error
    /\ Len(panels) >= 2

(***************************************************************************)
(* C8  Coordinate remapping: on the contour path and on the line path      *)
(* every reported bounding box is the panel's working-image box moved by   *)
(* the crop offset, width and height unchanged, and the pixels of the      *)
(* panel are those of the original image at the reported bounding box.     *)
(***************************************************************************)
C8_Remapping ==
    Succeeded =>
        \A k \in 1 .. Len(result.panels) :
            LET p == result.panels[k]
                bb == p.boundingBox
            IN /\ bb = Translated(p.from.work,
                                  IF p.from.strategy = "whole" THEN NoCrop ELSE crop_info)
               /\ p.imageData.origin = <<bb.x, bb.y>>
               /\ p.imageData.pixels
                      = Slice(im, bb.y, bb.y + bb.height, bb.x, bb.x + bb.width)
               /\ p.imageData.pixels.width = bb.width
               /\ p.imageData.pixels.height = bb.height

\* grid cells reported from an image cropped on the left and on top
C8_Witness ==
    /\ Succeeded
    /\ "grid" \in ran
    /\ Len(result.panels) >= 2
    /\ crop_info[1] > 0 /\ crop_info[2] > 0
    /\ \E k \in 1 .. Len(result.panels) : result.panels[k].from.work[1] > 0

(***************************************************************************)
(* C9  Crop monotonicity: for every input image of width W and height H,   *)
(* remove_black_borders returns CropInfo (x, y, w, h) with 0 <= x, 0 <= y, *)
(* w >= 1, h >= 1, x + w <= W and y + h <= H, and the cropped image it     *)
(* returns has exactly width w and height h.                               *)
(***************************************************************************)
C9_CropMonotonicity ==
    pc = "crop_out" =>
        /\ 0 <= crop_info[1] /\ 0 <= crop_info[2]
        /\ crop_info[3] >= 1 /\ crop_info[4] >= 1
        /\ crop_info[1] + crop_info[3] <= im.width
        /\ crop_info[2] + crop_info[4] <= im.height
        /\ cropped_im.width = crop_info[3]
        /\ cropped_im.height = crop_info[4]

\* a crop that removed a margin on every side
C9_Witness ==
    /\ pc = "crop_out"
    /\ crop_info[1] > 0 /\ crop_info[2] > 0
    /\ crop_info[1] + crop_info[3] < im.width
    /\ crop_info[2] + crop_info[4] < im.height

(***************************************************************************)
(* C10  Crop padding: when non-black pixels span rows r0..r1 and columns   *)
(* c0..c1, remove_black_borders returns the region of rows r0-5..r1+5 and  *)
(* columns c0-5..c1+5 clamped to the image: offset (max(0, c0-5),          *)
(* max(0, r0-5)) and the same 5 pixels of padding after the last non-black *)
(* row and column as before the first.                                     *)
(***************************************************************************)
C10_CropPadding ==
    (pc = "crop_out" /\ non_black_mask(im) # {}) =>
        LET coords == non_black_mask(im)
            r0 == SetMin({p[1] : p \in coords})
            r1 == SetMax({p[1] : p \in coords})
            c0 == SetMin({p[2] : p \in coords})
            c1 == SetMax({p[2] : p \in coords})
            first_row == Max(0, r0 - 5)
            last_row == Min(im.height - 1, r1 + 5)
            first_col == Max(0, c0 - 5)
            last_col == Min(im.width - 1, c1 + 5)
        IN crop_info = <<first_col, first_row,
                         last_col - first_col + 1, last_row - first_row + 1>>

(***************************************************************************)
(* C11  Contour reading order: on the contour path the reported panels are *)
(* sorted ascending by bounding-box y and, among equal y, descending by    *)
(* bounding-box x; the panel at position k (0-based) has id panel_k and    *)
(* readingOrderIndex k, whatever order the detector returned.              *)
(***************************************************************************)
C11_ContourReadingOrder ==
    (Succeeded /\ "contour_path" \in ran) =>
        /\ \A k \in 1 .. Len(result.panels) :
              /\ result.panels[k].id = <<"panel", k - 1>>
              /\ result.panels[k].readingOrderIndex = k - 1
        /\ \A k, j \in 1 .. Len(result.panels) :
              k < j =>
                 LET a == result.panels[k].boundingBox
                     b == result.panels[j].boundingBox
                 IN a.y < b.y \/ (a.y = b.y /\ a.x >= b.x)

\* the detector returned two candidates of equal y with the left one first,
\* and a lower candidate before a higher one
C11_Witness ==
    /\ Succeeded
    /\ "contour_path" \in ran
    /\ \E i, j \in 1 .. Len(contour_panels) :
          /\ i < j
          /\ contour_panels[i][2] = contour_panels[j][2]
          /\ contour_panels[i][1] < contour_panels[j][1]
    /\ \E i, j \in 1 .. Len(contour_panels) :
          /\ i < j
          /\ contour_panels[i][2] > contour_panels[j][2]

(***************************************************************************)
(* C12  Line-path reading order: in both variants the reported sequence    *)
(* lists the row bands top to bottom and, within a band, the cells in      *)
(* strictly descending column order; it is sorted by (center-y ascending,  *)
(* center-x descending); and for the cut positions of the invocation the   *)
(* legacy enumeration and the improved enumeration followed by the global  *)
(* sort give the same sequence of cells.                                   *)
(***************************************************************************)
LinePathReported ==
    /\ Succeeded /\ "grid" \in ran
    /\ \A k \in 1 .. Len(result.panels) : result.panels[k].from.strategy = "line"

WorkBoxes(ps) == [k \in 1 .. Len(ps) |-> ps[k].from.work]

C12_LineReadingOrder ==
    LinePathReported =>
        LET cuts == SortedSeq(Range(h_pos))
            work == IF cropped_im # NoImage THEN cropped_im ELSE im
            improved == line_panels(grid_candidates(cuts, 1, v_pos, work.width,
                                                    work, NoCrop, TRUE))
            legacy == legacy_panels(legacy_grid_candidates(cuts, 1, v_pos, work.width,
                                                           work, TRUE))
            cells == WorkBoxes(result.panels)
        IN /\ WorkBoxes(improved) = WorkBoxes(legacy)
           /\ cells = WorkBoxes(legacy)
           /\ \A k, j \in 1 .. Len(cells) :
                 k < j =>
                    \/ cells[k][2] + cells[k][4] <= cells[j][2]
                    \/ /\ cells[k][2] = cells[j][2] /\ cells[k][4] = cells[j][4]
                       /\ cells[k][1] > cells[j][1]
           /\ \A k \in 1 .. Len(cells) - 1 :
                 LET cy(c) == 2 * c[2] + c[4]
                     cx(c) == 2 * c[1] + c[3]
                 IN \/ cy(cells[k]) < cy(cells[k + 1])
                    \/ cy(cells[k]) = cy(cells[k + 1]) /\ cx(cells[k]) >= cx(cells[k + 1])

\* the improved variant reports two bands, the upper one of at least two cells
C12_Witness ==
    /\ LinePathReported
    /\ cropped_im # NoImage
    /\ \E k, j \in 1 .. Len(result.panels) :
          /\ result.panels[k].from.work[2] = result.panels[j].from.work[2]
          /\ result.panels[k].from.work[1] > result.panels[j].from.work[1]
    /\ \E k, j \in 1 .. Len(result.panels) :
          result.panels[k].from.work[2] < result.panels[j].from.work[2]

(***************************************************************************)
(* C13  Scenario A: the page split by one full-height vertical divider and *)
(* one full-width horizontal divider, each seen as a pair of parallel      *)
(* edges a few pixels apart, yields exactly 4 panels, one per quadrant of  *)
(* the content rectangle, whichever detection strategy produces them.      *)
(***************************************************************************)
ScenarioAQuadrantBoxes ==
    {<<x[1], y[1], x[2] - x[1], y[2] - y[1]>> :
        x \in {<<ScenarioA.left, ScenarioA.vdiv>>, <<ScenarioA.vdiv, ScenarioA.right>>},
        y \in {<<ScenarioA.top, ScenarioA.hdiv>>, <<ScenarioA.hdiv, ScenarioA.bottom>>}}

CoversQuadrant(bb, q) ==
    LET tolerance == 8
    IN /\ Abs(bb.x - q[1]) <= tolerance
       /\ Abs(bb.y - q[2]) <= tolerance
       /\ Abs((bb.x + bb.width) - (q[1] + q[3])) <= tolerance
       /\ Abs((bb.y + bb.height) - (q[2] + q[4])) <= tolerance

C13_ScenarioA ==
    (Succeeded /\ im = ScenarioAImage) =>
        /\ result.totalPanels = 4
        /\ \A q \in ScenarioAQuadrantBoxes :
              Cardinality({k \in 1 .. Len(result.panels) :
                              CoversQuadrant(result.panels[k].boundingBox, q)}) = 1

(***************************************************************************)
(* C14  Numbering consistency: in one result the panel at position k of    *)
(* panels has a readingOrderIndex equal to the k-th value of readingOrder, *)
(* on the contour path, the line path and the whole-image fallback.        *)
(***************************************************************************)
C14_NumberingConsistent ==
    Succeeded =>
        \A k \in 1 .. Len(result.panels) :
            result.panels[k].readingOrderIndex = result.readingOrder[k]

(***************************************************************************)
(* C15  Determinism: two invocations with the same image and the same      *)
(* collaborator outputs (same contours and same line segments in the same  *)
(* order, same outcome of every extraction) return the same result: the    *)
(* same bounding boxes in the same order and the same readingOrder.        *)
(* Nothing of the first invocation influences the second.                  *)
(***************************************************************************)
SameInputs ==
    /\ pc = "done"
    /\ earlier.mode = "second"
    /\ im = earlier.image
    /\ drawn = earlier.drawn
    /\ lines = earlier.lines

InputUnread ==
    IF Len(cli.args) = 1 THEN FALSE
    ELSE cli.variant = "legacy" \/ cli.stdin = ReadError

\* the text the process was given
InputText == IF Len(cli.args) = 1 THEN cli.args[1] ELSE cli.stdin

InputEmpty == ~InputUnread /\ InputText \in {"", " "}

C16_ExitStatus ==
    pc = "exited" =>
        /\ cli.status \in {0, 1}
        /\ cli.status # 0 => InputUnread \/ InputEmpty
        /\ ~InputUnread /\ ~InputEmpty =>
               cli.status = 0 /\ cli.printed = "result" /\ Returned
        /\ cli.printed = "result" /\ "except" \in ran =>
               cli.status = 0 /\ result.has_error

\* a process of either variant whose segmentation failed after its input was read
C16_Witness ==
    /\ pc = "exited"
    /\ ~InputUnread /\ ~InputEmpty
    /\ "except" \in ran
    /\ result.has_error
    /\ cli.status = 0

\* the pair-by-pair loops end with what merge_inline_segments computes
ScanAgrees ==
    pc = "merged" =>
        segment_lines = merge_inline_segments(scan.input, ImprovedPreset.distance)

(***************************************************************************)
(* C17  Collinear-merge fixed point: for every input list of segments,     *)
(* after the horizontal pass no two distinct segments of the working list  *)
(* are inline in the horizontal sense, and after the vertical pass no two  *)
(* distinct segments of the working list are inline in the vertical sense. *)
(***************************************************************************)
NoInlinePair(segs, orientation) ==
    \A a, b \in Range(segs) : a # b => ~in_line(a, b, orientation)

C17_MergeFixedPoint ==
    /\ pc = "pass" /\ scan.orientation = 0 => NoInlinePair(segment_lines, 1)
    /\ pc = "merged" => NoInlinePair(segment_lines, 0)

(***************************************************************************)
(* C18  Merge progress: every successful merge step (an inline pair whose  *)
(* merged segment differs from the scanned segment) strictly reduces the   *)
(* number of segments in the working list, also when the scanned segment   *)
(* comes from the snapshot and is no longer in the working list.           *)
(***************************************************************************)
C18_MergeProgress ==
    scan.last.merged => scan.last.after < scan.last.before

(***************************************************************************)
(* C19  The collinear merge only joins segments on the same row or the     *)
(* same column: when every segment entering the merge is exactly           *)
(* horizontal or exactly vertical, so is every segment of the working list *)
(* after both passes.                                                      *)
(***************************************************************************)
Orthogonal(line) == line[1][1] = line[2][1] \/ line[1][2] = line[2][2]

C19_MergeKeepsOrthogonal ==
    (pc = "merged" /\ \A i \in 1 .. Len(scan.input) : Orthogonal(scan.input[i])) =>
        \A i \in 1 .. Len(segment_lines) : Orthogonal(segment_lines[i])

(***************************************************************************)
(* C20  Final overlap resolution is the area-descending greedy policy:     *)
(* candidates are visited in descending bounding-box area and a candidate  *)
(* is kept if and only if no already-kept candidate overlaps it by more    *)
(* than 30% of the candidate's own area.  Hence the largest candidate is   *)
(* always kept, every dropped candidate overlaps some kept candidate of    *)
(* greater-or-equal area by more than 30% of its own area, a dropped       *)
(* candidate never suppresses another one, and of two candidates that      *)
(* overlap by 40% of the smaller one's area only the larger is returned.   *)
(***************************************************************************)
\* more than 30% of the area of b lies inside k
Over30(b, k) == 100 * overlap_area(b, k) > 30 * BoxArea(b)

RECURSIVE AtIndices(_, _)
AtIndices(seq, K) ==
    IF K = {} THEN <<>>
    ELSE LET m == CHOOSE i \in K : \A j \in K : j <= i
         IN Append(AtIndices(seq, K \ {m}), seq[m])

\* the indices the greedy policy keeps of candidates in visiting order
GreedyChoice(cand, K) ==
    \A k \in 1 .. Len(cand) :
        k \in K <=> ~\E j \in K : j < k /\ Over30(cand[k], cand[j])

C20_OverlapResolution ==
    pc = "overlap_out" =>
        LET cand == panel_boxes
            kept == contour_panels
        IN /\ \A i, j \in 1 .. Len(cand) : i < j => BoxArea(cand[i]) >= BoxArea(cand[j])
           /\ \E K \in SUBSET (1 .. Len(cand)) :
                  GreedyChoice(cand, K) /\ kept = AtIndices(cand, K)
           /\ kept = remove_overlapping(cand)
           /\ cand # <<>> =>
                  /\ kept # <<>>
                  /\ \A b \in Range(cand) : BoxArea(kept[1]) >= BoxArea(b)
           /\ \A b \in Range(cand) \ Range(kept) :
                  \E k \in Range(kept) : BoxArea(k) >= BoxArea(b) /\ Over30(b, k)
           /\ \A i, j \in 1 .. Len(kept) : i < j => ~Over30(kept[j], kept[i])
           /\ (/\ Len(cand) = 2
               /\ BoxArea(cand[1]) > BoxArea(cand[2])
               /\ 100 * overlap_area(cand[1], cand[2]) = 40 * BoxArea(cand[2]))
                  => kept = <<cand[1]>>

\* three candidates: one is dropped for the largest, and a smaller one that
\* lies inside the dropped one is kept
C20_Witness ==
    /\ pc = "overlap_out"
    /\ Len(panel_boxes) = 3
    /\ Len(contour_panels) = 2
    /\ \E d \in Range(panel_boxes) \ Range(contour_panels) :
           /\ 100 * overlap_area(d, contour_panels[1]) = 40 * BoxArea(d)
           /\ Over30(contour_panels[2], d)

(***************************************************************************)
(* C21  Grid enumeration: for each pair of consecutive horizontal          *)
(* positions (a band lb..ub) the column cuts are exactly the columns of    *)
(* the vertical cutting lines with lower <= lb and upper >= ub, together   *)
(* with the image edges 0 and W-1, sorted and deduplicated, and one panel  *)
(* is emitted per adjacent pair of cuts with rows lb..ub.  A band no       *)
(* vertical line covers gets exactly one panel over columns 0..W-1.  A     *)
(* line that covers only part of a band gives it no cut.                   *)
(***************************************************************************)
\* the cells the builder emitted, as working-image boxes <<x, y, w, h>>
Emitted ==
    {panels[k].from.work : k \in {j \in 1 .. Len(panels) : panels[j].from.strategy = "line"}}

\* the column cuts the claim gives a band
ColumnCuts(lb, ub) ==
    {v[1] : v \in {u \in Range(v_pos) : u[2] <= lb /\ u[3] >= ub}}
        \cup {0, im.width - 1}

\* the cells the claim gives a band
BandCells(lb, ub) ==
    LET cuts == ColumnCuts(lb, ub)
    IN {<<q[1], lb, q[2] - q[1], ub - lb>> :
            q \in {r \in cuts \X cuts :
                       r[1] < r[2] /\ \A m \in cuts : ~(r[1] < m /\ m < r[2])}}

\* the bands: pairs of consecutive horizontal positions
Bands ==
    LET hs == Range(h_pos)
    IN {<<lb, ub>> \in hs \X hs : lb < ub /\ \A m \in hs : ~(lb < m /\ m < ub)}

GridDone == pc = "cuts_out" /\ "except" \notin ran /\ im.width >= 2 /\ im.height >= 2

C21_GridEnumeration ==
    GridDone =>
        /\ Emitted = UNION {BandCells(b[1], b[2]) : b \in Bands}
        /\ Cardinality(Emitted) = Len(panels)
        /\ \A b \in Bands :
              (\A v \in Range(v_pos) : ~(v[2] <= b[1] /\ v[3] >= b[2])) =>
                  {c \in Emitted : c[2] = b[1]} = {<<0, b[1], im.width - 1, b[2] - b[1]>>}

\* two bands, one cut by two columns, the other by one of them only
C21_Witness ==
    /\ GridDone
    /\ Cardinality(Bands) = 2
    /\ \E b \in Bands : Cardinality(BandCells(b[1], b[2])) = 3
    /\ \E b \in Bands :
          /\ Cardinality(BandCells(b[1], b[2])) = 2
          /\ \E v \in Range(v_pos) : v[2] > b[1] \/ v[3] < b[2]

(***************************************************************************)
(* C22  Tiling: on a working image of width W >= 2 and height H >= 2 the   *)
(* panels the line-based builder emits (working coordinates) have pairwise *)
(* disjoint interiors and their union is the rectangle of columns 0..W-1   *)
(* and rows 0..H-1, so their areas sum to (W-1)*(H-1); no band is skipped  *)
(* and no cell is empty.                                                   *)
(***************************************************************************)
RECURSIVE SumAreas(_)
SumAreas(cells) ==
    IF cells = {} THEN 0
    ELSE LET c == CHOOSE x \in cells : TRUE
         IN BoxArea(c) + SumAreas(cells \ {c})

C22_Tiling ==
    GridDone =>
        /\ \A c \in Emitted :
              /\ c[3] >= 1 /\ c[4] >= 1
              /\ c[1] >= 0 /\ c[2] >= 0
              /\ c[1] + c[3] <= im.width - 1 /\ c[2] + c[4] <= im.height - 1
        /\ \A c, d \in Emitted : c # d => overlap_area(c, d) = 0
        /\ Cardinality(Emitted) = Len(panels)
        /\ SumAreas(Emitted) = (im.width - 1) * (im.height - 1)

\* a grid of at least four cells
C22_Witness ==
    /\ GridDone
    /\ Cardinality(Emitted) >= 4
    /\ Cardinality(Bands) >= 2

(***************************************************************************)
(* C23  On a working image of width >= 2 and height >= 2 the line-based    *)
(* builder emits at least one panel for every set of detected segments,    *)
(* none included; the whole-image fallback is reached only when a working  *)
(* dimension is 1 pixel or every band raised an extraction error.          *)
(***************************************************************************)
FallbackTaken ==
    pc = "cuts_out" /\ panels # <<>> /\ panels[1].from.strategy = "whole"

\* every cell of every band is a region the encoder raises on
EveryBandRaised ==
    \A b \in Bands :
        \A c \in BandCells(b[1], b[2]) : c[3] = 0 \/ c[4] = 0

C23_BuilderYield ==
    /\ GridDone => Emitted # {} /\ ~FallbackTaken
    /\ FallbackTaken => im.width = 1 \/ im.height = 1 \/ (Bands # {} /\ EveryBandRaised)
    /\ (pc = "cuts_out" /\ "except" \notin ran) => panels # <<>>

\* no segment was detected: the builder emits the working image as one cell
C23_Witness ==
    /\ GridDone
    /\ scan.input.h = <<>> /\ scan.input.v = <<>>
    /\ Emitted = {<<0, 0, im.width - 1, im.height - 1>>}
    /\ Len(panels) = 1

(***************************************************************************)
(* C24  Vertical span clamp: after the clamp the lower end of every        *)
(* vertical candidate is the greatest horizontal position (sentinels 0 and *)
(* H-1 included) that is <= its original lower end, and its upper end the  *)
(* least horizontal position >= its original upper end; both ends are band *)
(* boundaries, the clamped span contains the original one and the column   *)
(* is unchanged.                                                           *)
(***************************************************************************)
C24_SpanClamp ==
    pc = "cuts_clamped" =>
        LET hs == Range(h_pos)
            before == scan.input.v
        IN /\ Len(v_pos) = Len(before)
           /\ \A i \in 1 .. Len(v_pos) :
                 /\ v_pos[i][1] = before[i][1]
                 /\ v_pos[i][2] \in hs /\ v_pos[i][3] \in hs
                 /\ v_pos[i][2] <= before[i][2] /\ v_pos[i][3] >= before[i][3]
                 /\ \A m \in hs : m <= before[i][2] => m <= v_pos[i][2]
                 /\ \A m \in hs : m >= before[i][3] => m >= v_pos[i][3]

\* a candidate strictly inside a band whose both ends were moved
C24_Witness ==
    /\ pc = "cuts_clamped"
    /\ Len(h_pos) >= 4
    /\ \E i \in 1 .. Len(v_pos) :
          /\ v_pos[i][2] < scan.input.v[i][2]
          /\ v_pos[i][3] > scan.input.v[i][3]
          /\ v_pos[i][2] > 0

(***************************************************************************)
(* C25  Vertical merge: after the sort by column and the sweep, every      *)
(* candidate whose column is within the merge distance of its cluster's    *)
(* running mean has its column replaced by the integer mean of the columns *)
(* of the cluster members seen so far, so a cluster of distinct columns    *)
(* c1 < c2 < ... collapses onto their mean rather than onto c1; the row    *)
(* spans are unchanged.                                                    *)
(***************************************************************************)
\* the sweep the claim describes.  members: the columns of the members of
\* the current cluster seen before the candidate; with_current: whether the
\* mean a candidate is given counts the candidate itself
RECURSIVE RunningMeanSweep(_, _, _, _)
RunningMeanSweep(vpos, members, dst, with_current) ==
    IF vpos = <<>> THEN <<>>
    ELSE LET v == Head(vpos)
             n == Len(members)
             joined == Append(members, v[1])
             counted == IF with_current THEN joined ELSE members
         IN IF n > 0 /\ Abs(v[1] * n - SumSeq(members)) <= dst * n
            THEN <<<<SumSeq(counted) \div Len(counted), v[2], v[3]>>>>
                     \o RunningMeanSweep(Tail(vpos), joined, dst, with_current)
            ELSE <<v>> \o RunningMeanSweep(Tail(vpos), <<v[1]>>, dst, with_current)

C25_VerticalMerge ==
    pc = "cuts_v" =>
        LET sorted == StableSort(scan.clamped,
                                 [i \in 1 .. Len(scan.clamped) |-> <<scan.clamped[i][1], 0>>])
            dst == parallel_merge_dst(PresetOf(cli.variant), im.width, im.height)
        IN /\ Len(v_pos) = Len(sorted)
           /\ \A i \in 1 .. Len(v_pos) :
                 v_pos[i][2] = sorted[i][2] /\ v_pos[i][3] = sorted[i][3]
           /\ \/ v_pos = RunningMeanSweep(sorted, <<>>, dst, FALSE)
              \/ v_pos = RunningMeanSweep(sorted, <<>>, dst, TRUE)


\* C26: horizontal merge.  For every list of non-negative positions and every
\* tolerance, new_parallel_merge returns a strictly ascending list without
\* duplicates, every value of which is one of the input positions, and any
\* two of whose values differ by more than the tolerance.
C26_HorizontalMerge ==
    pc = "cuts_h" =>
        LET t == parallel_merge_dst(PresetOf(cli.variant), im.width, im.height)
        IN /\ \A i \in 1 .. Len(h_pos) - 1 : h_pos[i] < h_pos[i + 1]
           /\ \A i \in 1 .. Len(h_pos) : h_pos[i] \in Range(scan.input.h)
           /\ \A i, k \in 1 .. Len(h_pos) : i # k => Abs(h_pos[i] - h_pos[k]) > t


(***************************************************************************)
(* Claims about the contour passes followed contour by contour             *)
(***************************************************************************)
Visited(stage) == scan.last.stage = stage
Added == panel_boxes = Append(scan.last.before, scan.last.contour.box)
NotAdded == panel_boxes = scan.last.before

\* C27: the primary pass accepts a contour if and only if its area a is
\* between 2% and 90% of the image area, both included, its box is wider
\* and higher than 100, 0.2 < w / h < 10, and the box is within 20 of a side
\* of the image or a is more than 5% of the image area; a contour of exactly
\* 2% or exactly 90% of the image area is accepted when the rest holds.
C27_PrimaryFilter ==
    Visited("primary") =>
        LET c == scan.last.contour
            W == cropped_im.width
            H == cropped_im.height
            accepted ==
                /\ 100 * c.area >= 2 * (W * H) /\ 100 * c.area <= 90 * (W * H)
                /\ c.box[3] > 100 /\ c.box[4] > 100
                /\ 10 * c.box[3] > 2 * c.box[4] /\ c.box[3] < 10 * c.box[4]
                /\ \/ c.box[1] < 20 \/ c.box[2] < 20
                   \/ c.box[1] + c.box[3] > W - 20 \/ c.box[2] + c.box[4] > H - 20
                   \/ 100 * c.area > 5 * (W * H)
        IN IF accepted THEN Added ELSE NotAdded


\* C28: the secondary pass runs only when the primary pass accepted fewer
\* than 2 candidates, it visits the pairs in the order (15,5), (15,10),
\* (21,5), (21,10), and no candidate is accepted once 3 candidates are
\* accumulated.
C28_SecondaryStop ==
    /\ scan.visited # <<>> => scan.primary \in {0, 1}
    /\ Len(scan.visited) <= 4
    /\ scan.visited = SubSeq(<<<<15, 5>>, <<15, 10>>, <<21, 5>>, <<21, 10>>>>,
                             1, Len(scan.visited))
    /\ (Visited("secondary") /\ Len(scan.last.before) >= 3) => NotAdded


\* C29: in the secondary pass a contour that passes the area, size and
\* aspect filters is added if and only if its intersection with every
\* candidate accepted before it (by the primary pass, for an earlier pair or
\* earlier for the same pair) is at most 50% of the area of its own box.
C29_SecondaryDuplicate ==
    (/\ Visited("secondary")
     /\ passes_size_filters(scan.last.contour, cropped_im.width, cropped_im.height)) =>
        LET b == scan.last.contour.box
            apart == \A i \in 1 .. Len(scan.last.before) :
                         100 * overlap_area(b, scan.last.before[i]) <= 50 * (b[3] * b[4])
        IN IF apart THEN Added ELSE NotAdded

\* a box with exactly half of its area in a box accepted by the primary pass
\* was added, and one with more than half of it in an earlier box was not
C29_Witness ==
    /\ Visited("secondary")
    /\ scan.primary = 1
    /\ scan.last.contour.box = <<125, 0, 250, 200>>
    /\ scan.last.before = <<<<0, 0, 250, 200>>>>
    /\ Added


(***************************************************************************)
(* Claims about the angle filter                                           *)
(***************************************************************************)
\* the slope of the segment is at most tan 5 or at least tan 85 in absolute
\* value, whichever endpoint comes first
WithinFiveDegrees(line) ==
    \/ Dx(line) = 0
    \/ Abs(Dy(line)) * 1000000 <= 87488 * Abs(Dx(line))
    \/ Abs(Dy(line)) * 100000 >= 1143006 * Abs(Dx(line))

RECURSIVE Retained(_, _)
Retained(ls, variant) ==
    IF ls = <<>> THEN <<>>
    ELSE LET line == Head(ls)
             keep == IF variant = "legacy"
                     THEN line[1][1] = line[2][1] \/ line[1][2] = line[2][2]
                     ELSE WithinFiveDegrees(line)
         IN (IF keep THEN <<line>> ELSE <<>>) \o Retained(Tail(ls), variant)

\* C30: with the improved preset (deviation 5) a segment is retained if and
\* only if its direction is within 5 degrees of the horizontal or of the
\* vertical, whatever the order of its endpoints and the sign of its slope;
\* with the legacy preset (deviation 0) exactly the segments with equal first
\* or equal second coordinates are retained.
C30_AngleFilter ==
    pc = "angle_out" => segment_lines = Retained(lines, cli.variant)

====
